---- MODULE Spec2Model ----
(***************************************************************************)
(* Model of the data dictionary generator's AI description client          *)
(* (backend/src/processors/ai_generator.py) and of its schema fingerprint  *)
(* (backend/src/services/dictionary_service.py, version_service.py,        *)
(* backend/src/processors/json_parser.py, type_inferrer.py).               *)
(*                                                                         *)
(* The client runs on one asyncio event loop: the code between two awaits  *)
(* is one atomic step.  The awaits of generate_description are the         *)
(* acquisition of the semaphore, the backend request and the backoff       *)
(* sleep; they delimit the actions below.                                  *)
(***************************************************************************)
EXTENDS Integers, Sequences, FiniteSets, TLC

(***************************************************************************)
(* Bounds of the model and externally owned configuration.                 *)
(***************************************************************************)
MaxCalls == 3
BreakerCalls == 5
BatchCalls == 4
PairCalls == 2
MaxModelChanges == 1
MaxTime == 120
TickStep == 60
OPENAI_MAX_RETRY_ATTEMPTS == 2
OPENAI_MAX_CONCURRENT_REQUESTS == 1
OPENAI_CACHE_MAX_SIZE == 2
OPENAI_CACHE_TTL == 60
MaxTags == 4
MaxSamples == 3
ClockStep == 30
MaxClock == 90
XML_PARSE_TIMEOUT == 60
MaxItems == 4
MaxSampleArg == 2
MaxObservations == 4
MaxObserveCalls == 12
CooldownStep == 30
MetricCalls == 4
FairCalls == 3

(***************************************************************************)
(* Constants of the program.                                               *)
(***************************************************************************)
FailureThreshold == 3
CircuitCooldown == 60
SampleLimit == 10
SemanticThresholdPercent == 70
PiiThresholdPercent == 50
MaxDepth == 10
MaxSampleRecords == 1000
MaxFieldSamples == 10
ArrayItemLimit == 10
DetectTimeout == 30

\* the generate_description calls that may run at the same time
Tasks == {1, 2}

Models == {"gpt-4", "gpt-3.5-turbo"}

(***************************************************************************)
(* Texts are sequences of tokens.  A semantic type is <<>> for None and    *)
(* <<s>> for the string s.                                                 *)
(***************************************************************************)
None == <<>>

Some(x) == <<x>>

Fields ==
  { [field_path |-> "contact.email_address", field_name |-> <<"email", "_", "address">>,
     data_type |-> "string", semantic_type |-> Some("email")],
    [field_path |-> "age", field_name |-> <<"age">>,
     data_type |-> "integer", semantic_type |-> None] }

NoField == [field_path |-> "", field_name |-> <<>>, data_type |-> "", semantic_type |-> None]

\* f"{field_path}:{data_type}:{semantic_type}"
CacheKey(field_path, data_type, semantic_type) ==
  <<field_path, ":", data_type, ":",
    IF semantic_type = None THEN "None" ELSE semantic_type[1]>>

Keys == { CacheKey(f.field_path, f.data_type, f.semantic_type) : f \in Fields }

\* str.title() on one lower-case word
Capitalize(w) ==
  CASE w = "email" -> "Email"
    [] w = "address" -> "Address"
    [] w = "age" -> "Age"
    [] w = "id" -> "Id"
    [] OTHER -> w

RECURSIVE Title(_)
\* field_name.replace("_", " ").title()
Title(name) ==
  IF name = <<>> THEN <<>>
  ELSE <<(IF Head(name) = "_" THEN " " ELSE Capitalize(Head(name)))>> \o Title(Tail(name))

\* _fallback_description: (description, business_name)
FallbackDescription(field_name, data_type, semantic_type) ==
  LET business_name == Title(field_name)
      shown == IF semantic_type = None THEN data_type ELSE semantic_type[1]
  IN <<business_name \o <<" field of type ", shown>>, business_name>>

Fallback(f) == FallbackDescription(f.field_name, f.data_type, f.semantic_type)

\* _build_prompt (the sample values are left out: no decision depends on them)
BuildPrompt(f) ==
  [path |-> f.field_path, name |-> f.field_name, type |-> f.data_type,
   semantic |-> IF f.semantic_type = None THEN "N/A" ELSE f.semantic_type[1]]

Variants == {"v1", "v2"}

\* What the backend may answer to a prompt: lines of text about the prompted field.
Contents(prompt) ==
  { << [tag |-> "DESCRIPTION:", text |-> <<"describes ", prompt.path, v>>],
       [tag |-> "BUSINESS_NAME:", text |-> <<"name of ", prompt.path, v>>] >> : v \in Variants }

RECURSIVE ParseLines(_, _, _)
ParseLines(lines, description, business_name) ==
  IF lines = <<>> THEN <<description, business_name>>
  ELSE LET line == Head(lines)
       IN IF line.tag = "DESCRIPTION:"
            THEN ParseLines(Tail(lines), line.text, business_name)
            ELSE IF line.tag = "BUSINESS_NAME:"
                   THEN ParseLines(Tail(lines), description, line.text)
                   ELSE ParseLines(Tail(lines), description, business_name)

\* _parse_response
ParseResponse(content) == ParseLines(content, <<>>, <<>>)

(***************************************************************************)
(* The cache: an OrderedDict, modelled as the sequence of its entries in   *)
(* dictionary order (first = oldest position).                             *)
(***************************************************************************)
CacheIndex(c, k) ==
  IF \E i \in 1..Len(c) : c[i].key = k
    THEN CHOOSE i \in 1..Len(c) : c[i].key = k
    ELSE 0

RemoveAt(c, i) == SubSeq(c, 1, i - 1) \o SubSeq(c, i + 1, Len(c))

IsExpiredAtExpiry(entry, t) == t >= entry.expiry_time

\* time.time() > entry.expiry_time
IsExpired(entry, t) == t > entry.expiry_time

GetFromCacheAnyModel(c, k, t, m, enabled) ==
  LET i == CacheIndex(c, k)
  IN IF ~enabled THEN [hit |-> FALSE, value |-> <<>>, cache |-> c]
     ELSE IF i = 0 THEN [hit |-> FALSE, value |-> <<>>, cache |-> c]
     ELSE IF IsExpired(c[i], t) THEN [hit |-> FALSE, value |-> <<>>, cache |-> RemoveAt(c, i)]
     ELSE [hit |-> TRUE, value |-> c[i].value, cache |-> Append(RemoveAt(c, i), c[i])]

\* _get_from_cache: the value found (hit) and the cache afterwards
GetFromCache(c, k, t, m, enabled) ==
  LET i == CacheIndex(c, k)
  IN IF ~enabled THEN [hit |-> FALSE, value |-> <<>>, cache |-> c]
     ELSE IF i = 0 THEN [hit |-> FALSE, value |-> <<>>, cache |-> c]
     ELSE IF IsExpired(c[i], t) THEN [hit |-> FALSE, value |-> <<>>, cache |-> RemoveAt(c, i)]
     ELSE IF c[i].model_version # m THEN [hit |-> FALSE, value |-> <<>>, cache |-> RemoveAt(c, i)]
     ELSE [hit |-> TRUE, value |-> c[i].value, cache |-> Append(RemoveAt(c, i), c[i])]

\* len(self._cache) >= self._cache_max_size
MustEvict(c, k) == Len(c) >= OPENAI_CACHE_MAX_SIZE

\* _put_in_cache
PutInCache(c, k, v, t, m, enabled) ==
  IF ~enabled THEN c
  ELSE LET c1 == IF MustEvict(c, k) THEN Tail(c) ELSE c
           entry == [key |-> k, value |-> v, expiry_time |-> t + OPENAI_CACHE_TTL,
                     model_version |-> m]
           i == CacheIndex(c1, k)
       IN IF i > 0 THEN [c1 EXCEPT ![i] = entry] ELSE Append(c1, entry)

\* _is_circuit_open: the answer; the circuit closes when it answers FALSE while open
IsCircuitOpen(open, until, t) == open /\ ~(t >= until)

TripsCircuitLate(failures) == failures > FailureThreshold

\* self._consecutive_failures >= 3
TripsCircuit(failures) == failures >= FailureThreshold

\* the error kinds after which _call_openai_with_retry sleeps and loops
RetriedErrors == {"timeout", "rate_limit", "connection", "server_5xx"}

RetryableWithAuth(err) == err \in RetriedErrors \cup {"authentication"}

Retryable(err) == err \in RetriedErrors

Errors == RetriedErrors \cup {"authentication", "client_4xx", "unexpected"}

\* what the except clauses of _call_openai_with_retry distinguish
ErrClass(err) == IF err \in RetriedErrors THEN "retried" ELSE err

MayAttemptOneMore(attempt) == attempt <= OPENAI_MAX_RETRY_ATTEMPTS

\* while attempt < settings.OPENAI_MAX_RETRY_ATTEMPTS
MayAttempt(attempt) == attempt < OPENAI_MAX_RETRY_ATTEMPTS

SemAlwaysAvailable(value) == TRUE

\* a semaphore that never hands out a permit
SemNeverAvailable(value) == FALSE

\* asyncio.Semaphore: a permit is free
SemAvailable(value) == value > 0


(***************************************************************************)
(* State of one AIDescriptionGenerator and of the calls running on it.     *)
(***************************************************************************)
VARIABLES
  now,                   \* time.time()
  model,                 \* self.model
  client,                \* self.client is not None
  cache_enabled,         \* self._cache_enabled
  cache,                 \* self._cache
  consecutive_failures,  \* self._consecutive_failures
  circuit_open,          \* self._circuit_open
  circuit_open_until,    \* self._circuit_open_until
  semaphore,             \* free permits of self._semaphore
  pc,                    \* where each generate_description call stands
  task,                  \* the locals of each call
  batch,                 \* the running generate_batch call
  callsLeft,             \* calls the callers will still make
  modelChanges,          \* assignments to self.model so far
  recording,             \* history: whether `last` is kept in this run
  last,                  \* history: the call that returned last
  failRun,               \* history: backend failures in a row since the last success or circuit close
  coolUntil,             \* history: end of the cooldown those failures started
  rowFails,              \* history: backend failures in a row since the last success
  rowUntil,              \* history: 60 seconds after the last time rowFails reached three
  metrics                \* self._metrics_enabled, the counters of self.metrics, and the
                         \* history flag of a reset made while a call was running

aiVars ==
  <<now, model, client, cache_enabled, cache, consecutive_failures, circuit_open,
    circuit_open_until, semaphore, pc, task, batch, callsLeft, modelChanges, recording, last,
    failRun, coolUntil, rowFails, rowUntil, metrics>>

VARIABLES
  hash_seed,   \* the iteration order of string sets in the running interpreter process
  snapshots    \* the Version rows: schema_hash, and data_type of the Field rows by path

hashVars == <<hash_seed, snapshots>>

VARIABLES
  path_seed,    \* the iteration order of sets of path strings in the running process
  field_rows,   \* the Field rows of each Version, ordered by position
  comparisons   \* what compare_versions returned last for each pair of version numbers

diffVars == <<path_seed, field_rows, comparisons>>

VARIABLES
  inferred,     \* the last call of TypeInferrer.infer_type: its argument and its result
  detected,     \* the last call of SemanticTypeDetector.detect: its arguments and its result
  pii,          \* the last call of PIIDetector.detect_pii: its arguments and its result
  mongo         \* the last create_dictionary of a MongoDB Extended JSON file: the parse
                \* result and the stored fields

classVars == <<inferred, detected, pii, mongo>>

VARIABLES
  clock,        \* wall-clock seconds of the process that parses XML files
  handler,      \* the handler installed for SIGALRM in that process
  alarm_at,     \* the time at which the pending alarm is due, 0 without a pending alarm
  guard,        \* the running with_timeout wrapper or timeout_context block
  xml           \* the running XMLParser.parse_file call

sigVars == <<clock, handler, alarm_at, guard, xml>>

VARIABLES
  parsed,       \* the last parse_file call of a JSON or XML parser: the file and the outcome
  stored,       \* the last field stored by create_dictionary from a JSON file
  acc           \* a field accumulator and the observe_value calls made on it

fileVars == <<parsed, stored, acc>>

\* the variables outside each component
exceptAI == <<hashVars, diffVars, classVars, sigVars, fileVars>>

exceptHash == <<aiVars, diffVars, classVars, sigVars, fileVars>>

exceptDiff == <<aiVars, hashVars, classVars, sigVars, fileVars>>

exceptClass == <<aiVars, hashVars, diffVars, sigVars, fileVars>>

exceptSig == <<aiVars, hashVars, diffVars, classVars, fileVars>>

exceptFile == <<aiVars, hashVars, diffVars, classVars, sigVars>>

NoFirst == [valid |-> FALSE, result |-> <<>>, inv |-> 0]

NoTask ==
  [field |-> NoField, attempt |-> 0, inv |-> 0, result |-> <<>>, raised |-> FALSE,
   how |-> "none", lastErr |-> "none", stale |-> FALSE, cool |-> FALSE,
   coolLit |-> FALSE, first |-> NoFirst]

NoLast == [valid |-> FALSE, field |-> NoField, result |-> <<>>, inv |-> 0, ended |-> 0,
           model |-> ""]

NoBatch == [phase |-> "none", fields |-> <<>>, results |-> <<>>, hows |-> <<>>]

KeyOf(f) == CacheKey(f.field_path, f.data_type, f.semantic_type)

NoMetrics ==
  [enabled |-> FALSE, straddled |-> FALSE, total_requests |-> 0, successful_requests |-> 0,
   failed_requests |-> 0, cached_requests |-> 0, cache_hits |-> 0, cache_misses |-> 0]

\* if self._metrics_enabled: self.metrics.<counter> += 1
Bump(m, counter) == IF m.enabled THEN [m EXCEPT ![counter] = @ + 1] ELSE m

\* the counters after the lookup alone: the short circuit of the breaker is not counted
MetricsAtStartOpenUncounted(m, caching, hit, has_client, open) ==
  LET total == Bump(m, "total_requests")
      looked == IF ~caching THEN total
                ELSE IF hit THEN Bump(total, "cache_hits") ELSE Bump(total, "cache_misses")
  IN IF hit THEN Bump(looked, "cached_requests") ELSE looked

\* generate_description up to its first await: total_requests, the counters of
\* _get_from_cache, cached_requests on a hit, failed_requests when the circuit is open
MetricsAtStart(m, caching, hit, has_client, open) ==
  LET total == Bump(m, "total_requests")
      looked == IF ~caching THEN total
                ELSE IF hit THEN Bump(total, "cache_hits") ELSE Bump(total, "cache_misses")
  IN IF hit THEN Bump(looked, "cached_requests")
     ELSE IF ~has_client THEN looked
     ELSE IF open THEN Bump(looked, "failed_requests")
     ELSE looked

\* AIDescriptionGenerator.__init__
InitAI(budget, clients, cachings, rec, metering) ==
  /\ metrics \in {[NoMetrics EXCEPT !.enabled = enabled] : enabled \in metering}
  /\ now = 0
  /\ model = "gpt-4"
  /\ client \in clients
  /\ cache_enabled \in cachings
  /\ cache = <<>>
  /\ consecutive_failures = 0
  /\ circuit_open = FALSE
  /\ circuit_open_until = 0
  /\ semaphore = OPENAI_MAX_CONCURRENT_REQUESTS
  /\ pc = [t \in Tasks |-> "idle"]
  /\ task = [t \in Tasks |-> NoTask]
  /\ batch = NoBatch
  /\ callsLeft = budget
  /\ modelChanges = 0
  /\ recording = rec
  /\ last = NoLast
  /\ failRun = 0
  /\ coolUntil = 0
  /\ rowFails = 0
  /\ rowUntil = 0

InBatch(t) == batch.phase = "running" /\ t \in 1..Len(batch.fields)

\* a single call has returned and its caller has not yet resumed
Returned == \E t \in Tasks : pc[t] = "done" /\ ~InBatch(t)

\* generate_description returns `result`: to the awaiting caller, or to asyncio.gather
Returns(t, rec, result, how) ==
  LET done == [rec EXCEPT !.result = result, !.how = how]
  IN /\ pc' = [pc EXCEPT ![t] = "done"]
     /\ task' = [task EXCEPT ![t] = done]
     /\ last' = IF recording
                  THEN [valid |-> TRUE, field |-> rec.field, result |-> result,
                        inv |-> rec.inv, ended |-> now, model |-> model]
                  ELSE last

\* _call_openai_with_retry, top of the loop: async with self._semaphore, then the request
EnterLoop(t, rec) ==
  /\ IF SemAvailable(semaphore)
       THEN /\ semaphore' = semaphore - 1
            /\ pc' = [pc EXCEPT ![t] = "inflight"]
            /\ task' = [task EXCEPT ![t] = [rec EXCEPT !.inv = rec.inv + 1]]
       ELSE /\ semaphore' = semaphore
            /\ pc' = [pc EXCEPT ![t] = "waiting"]
            /\ task' = [task EXCEPT ![t] = rec]
  /\ UNCHANGED last

\* generate_description from its first line to its first await (or return)
Begin(t, f) ==
  LET key == KeyOf(f)
      got == GetFromCache(cache, key, now, model, cache_enabled)
      open == IsCircuitOpen(circuit_open, circuit_open_until, now)
      rec == [NoTask EXCEPT
                !.field = f,
                !.stale = (cache_enabled /\ CacheIndex(cache, key) > 0 /\ ~got.hit),
                !.cool = (now < coolUntil),
                !.coolLit = (now < rowUntil),
                !.first = IF /\ last.valid
                             /\ KeyOf(last.field) = key
                             /\ now - last.ended <= OPENAI_CACHE_TTL
                             /\ last.model = model
                            THEN [valid |-> TRUE, result |-> last.result, inv |-> last.inv]
                            ELSE NoFirst]
  IN /\ cache' = got.cache
     /\ IF got.hit
          THEN /\ Returns(t, rec, got.value, "cache")
               /\ UNCHANGED <<consecutive_failures, circuit_open, semaphore, failRun>>
          ELSE IF ~client
          THEN /\ Returns(t, rec, Fallback(f), "no_client")
               /\ UNCHANGED <<consecutive_failures, circuit_open, semaphore, failRun>>
          ELSE IF open
          THEN /\ Returns(t, rec, Fallback(f), "circuit_open")
               /\ UNCHANGED <<consecutive_failures, circuit_open, semaphore, failRun>>
          ELSE /\ circuit_open' = FALSE
               /\ consecutive_failures' = IF circuit_open THEN 0 ELSE consecutive_failures
               /\ failRun' = IF circuit_open THEN 0 ELSE failRun
               /\ EnterLoop(t, rec)
     /\ metrics' = MetricsAtStart(metrics, cache_enabled, got.hit, client, open)
     /\ UNCHANGED <<now, model, client, cache_enabled, circuit_open_until, batch,
                    modelChanges, recording, coolUntil, rowFails, rowUntil>>
  /\ UNCHANGED exceptAI

\* a caller awaits generate_description(field...)
CallStart(t, f) ==
  /\ pc[t] = "idle"
  /\ ~Returned
  /\ callsLeft > 0
  /\ callsLeft' = callsLeft - 1
  /\ Begin(t, f)

\* the semaphore hands a permit to a waiting call
Acquire(t) ==
  /\ pc[t] = "waiting"
  /\ ~Returned
  /\ SemAvailable(semaphore)
  /\ semaphore' = semaphore - 1
  /\ pc' = [pc EXCEPT ![t] = "inflight"]
  /\ task' = [task EXCEPT ![t].inv = @ + 1]
  /\ UNCHANGED <<now, model, client, cache_enabled, cache, consecutive_failures,
                 circuit_open, circuit_open_until, batch, callsLeft, modelChanges, recording, metrics, last, failRun,
                 coolUntil, rowFails, rowUntil>>
  /\ UNCHANGED exceptAI

\* the backend answers; generate_description caches and returns the parsed pair
RespondOk(t, content) ==
  /\ pc[t] = "inflight"
  /\ ~Returned
  /\ content \in Contents(BuildPrompt(task[t].field))
  /\ semaphore' = semaphore + 1
  /\ consecutive_failures' = 0
  /\ cache' = PutInCache(cache, KeyOf(task[t].field), ParseResponse(content), now, model,
                         cache_enabled)
  /\ Returns(t, [task[t] EXCEPT !.lastErr = "none"], ParseResponse(content), "backend")
  /\ failRun' = 0
  /\ rowFails' = 0
  /\ metrics' = Bump(metrics, "successful_requests")
  /\ UNCHANGED <<now, model, client, cache_enabled, circuit_open, circuit_open_until,
                 batch, callsLeft, modelChanges, recording, coolUntil, rowUntil>>
  /\ UNCHANGED exceptAI

\* the except clause that stores the fallback pair it returns
CacheAfterFailureStoring(c, f, t, m, enabled) == PutInCache(c, KeyOf(f), Fallback(f), t, m, enabled)

\* the cache after the except clause of generate_description: no _put_in_cache there
CacheAfterFailure(c, f, t, m, enabled) == c

\* the request fails with err: retry after a sleep, or give up and fall back
RespondError(t, err) ==
  LET counted == err \in RetriedErrors \cup {"client_4xx"}
      attempt == IF counted THEN task[t].attempt + 1 ELSE task[t].attempt
      rec == [task[t] EXCEPT !.attempt = attempt, !.lastErr = ErrClass(err)]
      failures == consecutive_failures + 1
  IN /\ pc[t] = "inflight"
     /\ ~Returned
     /\ semaphore' = semaphore + 1
     /\ IF Retryable(err) /\ MayAttempt(attempt)
          THEN /\ pc' = [pc EXCEPT ![t] = "sleeping"]
               /\ task' = [task EXCEPT ![t] = rec]
               /\ UNCHANGED <<cache, consecutive_failures, circuit_open, circuit_open_until,
                              last, failRun, coolUntil, rowFails, rowUntil, metrics>>
          ELSE /\ consecutive_failures' = failures
               /\ circuit_open' = (circuit_open \/ TripsCircuit(failures))
               /\ circuit_open_until' = IF TripsCircuit(failures)
                                          THEN now + CircuitCooldown
                                          ELSE circuit_open_until
               /\ failRun' = failRun + 1
               /\ coolUntil' = IF failRun + 1 >= 3 THEN now + 60 ELSE coolUntil
               /\ rowFails' = rowFails + 1
               /\ rowUntil' = IF rowFails + 1 >= 3 THEN now + 60 ELSE rowUntil
               /\ cache' = CacheAfterFailure(cache, rec.field, now, model, cache_enabled)
               /\ metrics' = Bump(metrics, "failed_requests")
               /\ Returns(t, rec, Fallback(rec.field), "failed")
     /\ UNCHANGED <<now, model, client, cache_enabled, batch, callsLeft, modelChanges, recording>>
  /\ UNCHANGED exceptAI

\* asyncio.sleep(wait_time) is over: next turn of the retry loop
Wake(t) ==
  /\ pc[t] = "sleeping"
  /\ ~Returned
  /\ EnterLoop(t, task[t])
  /\ UNCHANGED <<now, model, client, cache_enabled, cache, consecutive_failures,
                 circuit_open, circuit_open_until, batch, callsLeft, modelChanges, recording, metrics, failRun,
                 coolUntil,
                 rowFails, rowUntil>>
  /\ UNCHANGED exceptAI

\* the caller that awaited generate_description resumes with the result (same loop step)
Return(t) ==
  /\ pc[t] = "done"
  /\ ~InBatch(t)
  /\ pc' = [pc EXCEPT ![t] = "idle"]
  /\ task' = [task EXCEPT ![t] = NoTask]
  /\ UNCHANGED <<now, model, client, cache_enabled, cache, consecutive_failures,
                 circuit_open, circuit_open_until, semaphore, batch, callsLeft,
                 modelChanges, recording, metrics, last, failRun, coolUntil, rowFails, rowUntil>>
  /\ UNCHANGED exceptAI

BatchInputs == UNION { [1..n -> Fields] : n \in 1..Cardinality(Tasks) }

\* generate_batch: one generate_description coroutine per field, handed to asyncio.gather
BatchStart(fs) ==
  /\ batch.phase = "none"
  /\ ~Returned
  /\ \A t \in 1..Len(fs) : pc[t] = "idle"
  /\ callsLeft >= Len(fs)
  /\ callsLeft' = callsLeft - Len(fs)
  /\ batch' = [phase |-> "running", fields |-> fs, results |-> <<>>, hows |-> <<>>]
  /\ pc' = [t \in Tasks |-> IF t \in 1..Len(fs) THEN "created" ELSE pc[t]]
  /\ UNCHANGED <<now, model, client, cache_enabled, cache, consecutive_failures,
                 circuit_open, circuit_open_until, semaphore, task, modelChanges, recording, metrics, last, failRun,
                 coolUntil, rowFails, rowUntil>>
  /\ UNCHANGED exceptAI

\* the event loop starts the gathered coroutines in the order they were created
BatchTaskStart(t) ==
  /\ pc[t] = "created"
  /\ ~Returned
  /\ \A u \in 1..(t - 1) : pc[u] # "created"
  /\ Begin(t, batch.fields[t])
  /\ UNCHANGED callsLeft
  /\ UNCHANGED exceptAI

ProcessedResultsReversed(fields, calls) ==
  [i \in 1..Len(fields) |->
     IF calls[Len(fields) + 1 - i].raised THEN Fallback(fields[i])
     ELSE calls[Len(fields) + 1 - i].result]

\* generate_batch, the loop over the gathered results
ProcessedResults(fields, calls) ==
  [i \in 1..Len(fields) |->
     IF calls[i].raised THEN Fallback(fields[i]) ELSE calls[i].result]

\* generate_batch after gather(..., return_exceptions=True): the processed results
BatchCollect ==
  /\ batch.phase = "running"
  /\ ~Returned
  /\ \A t \in 1..Len(batch.fields) : pc[t] = "done"
  /\ batch' = [batch EXCEPT
       !.phase = "collected",
       !.results = ProcessedResults(batch.fields, task),
       !.hows = [i \in 1..Len(batch.fields) |-> task[i].how]]
  /\ pc' = [t \in Tasks |-> IF t \in 1..Len(batch.fields) THEN "idle" ELSE pc[t]]
  /\ task' = [t \in Tasks |-> IF t \in 1..Len(batch.fields) THEN NoTask ELSE task[t]]
  /\ UNCHANGED <<now, model, client, cache_enabled, cache, consecutive_failures,
                 circuit_open, circuit_open_until, semaphore, callsLeft, modelChanges, recording, metrics, last, failRun,
                 coolUntil, rowFails, rowUntil>>
  /\ UNCHANGED exceptAI

\* the caller of generate_batch takes the list
BatchReturn ==
  /\ batch.phase = "collected"
  /\ ~Returned
  /\ batch' = NoBatch
  /\ UNCHANGED <<now, model, client, cache_enabled, cache, consecutive_failures,
                 circuit_open, circuit_open_until, semaphore, pc, task, callsLeft, modelChanges, recording, metrics, last,
                 failRun, coolUntil, rowFails, rowUntil>>
  /\ UNCHANGED exceptAI

\* time passes
Tick ==
  /\ now + TickStep <= MaxTime
  /\ ~Returned
  /\ now' = now + TickStep
  /\ UNCHANGED <<model, client, cache_enabled, cache, consecutive_failures, circuit_open,
                 circuit_open_until, semaphore, pc, task, batch, callsLeft, modelChanges, recording, metrics, last, failRun,
                 coolUntil, rowFails, rowUntil>>
  /\ UNCHANGED exceptAI

\* reset_metrics: self.metrics = CostMetrics()
ResetMetrics ==
  /\ metrics.enabled
  /\ ~Returned
  /\ metrics' = [NoMetrics EXCEPT !.enabled = TRUE,
                                  !.straddled = \E t \in Tasks : pc[t] # "idle"]
  /\ metrics' # metrics
  /\ UNCHANGED <<now, model, client, cache_enabled, cache, consecutive_failures, circuit_open,
                 circuit_open_until, semaphore, pc, task, batch, callsLeft, modelChanges, recording, last, failRun,
                 coolUntil, rowFails, rowUntil>>
  /\ UNCHANGED exceptAI

\* time passes, in steps shorter than the cooldown of the circuit breaker
Elapse ==
  /\ now + CooldownStep <= MaxTime
  /\ ~Returned
  /\ now' = now + CooldownStep
  /\ UNCHANGED <<model, client, cache_enabled, cache, consecutive_failures, circuit_open,
                 circuit_open_until, semaphore, pc, task, batch, callsLeft, modelChanges, recording, metrics, last, failRun,
                 coolUntil, rowFails, rowUntil>>
  /\ UNCHANGED exceptAI

\* the owner assigns another model name to the public attribute self.model
SetModel(m) ==
  /\ m # model
  /\ ~Returned
  /\ modelChanges < MaxModelChanges
  /\ modelChanges' = modelChanges + 1
  /\ model' = m
  /\ UNCHANGED <<now, client, cache_enabled, cache, consecutive_failures, circuit_open,
                 circuit_open_until, semaphore, pc, task, batch, callsLeft, recording, metrics, last, failRun,
                 coolUntil, rowFails, rowUntil>>
  /\ UNCHANGED exceptAI

\* clear_cache
ClearCache ==
  /\ cache # <<>>
  /\ ~Returned
  /\ cache' = <<>>
  /\ UNCHANGED <<now, model, client, cache_enabled, consecutive_failures, circuit_open,
                 circuit_open_until, semaphore, pc, task, batch, callsLeft, modelChanges, recording, metrics, last, failRun,
                 coolUntil, rowFails, rowUntil>>
  /\ UNCHANGED exceptAI

(***************************************************************************)
(* Schema fingerprint: json_parser.FieldMetadata, TypeInferrer and the     *)
(* _calculate_schema_hash of DictionaryService and VersionService.         *)
(***************************************************************************)

\* the versions of one dictionary: create_dictionary writes 1, create_new_version 2
Versions == {1, 2}

\* field paths, in the order Python compares the strings
PathOrder == <<"a", "b">>

Paths == {PathOrder[i] : i \in 1..Len(PathOrder)}

\* the type names observe_value adds for the values of the input files
SeenTypes == {"null", "integer", "string"}

\* the orders in which a set of these strings can iterate: the order follows the strings'
\* hashes, which are salted anew in every interpreter process
Seeds == {s \in [1..Cardinality(SeenTypes) -> SeenTypes] : \A i, j \in 1..Len(s) : s[i] = s[j] => i = j}

FirstSeed == CHOOSE s \in Seeds : TRUE

\* FieldMetadata objects after the parse: a path and the set types_seen
Metas == [field_path : Paths, types_seen : SUBSET SeenTypes \ {{}}]

\* the fields_map of one parse, in traversal order: each path once
Files ==
  {f \in UNION {[1..n -> Metas] : n \in 1..Cardinality(Paths)} :
     \A i, j \in 1..Len(f) : f[i].field_path = f[j].field_path => i = j}

\* list(a_set)
ListOfSet(set, seed) == SelectSeq(seed, LAMBDA x : x \in set)

\* FieldMetadata.to_dict
to_dict(meta, seed) ==
  [field_path |-> meta.field_path, types_seen |-> ListOfSet(meta.types_seen, seed)]

\* parse_file: 'fields': [field.to_dict() for field in fields_map.values()]
ParseFile(file, seed) == [i \in 1..Len(file) |-> to_dict(file[i], seed)]

\* Counter(types)[x]
Count(types, x) == Cardinality({i \in 1..Len(types) : types[i] = x})

\* the keys of Counter(types)
CounterKeys(types) == {types[i] : i \in 1..Len(types)}

\* Counter.most_common(1)[0][0]: the highest count, the first one encountered on a tie
MostCommon(types) ==
  types[CHOOSE i \in 1..Len(types) :
          /\ \A j \in 1..Len(types) : Count(types, types[j]) <= Count(types, types[i])
          /\ \A j \in 1..(i - 1) : Count(types, types[j]) < Count(types, types[i])]

\* TypeInferrer.infer_type, the data type of the returned pair
InferType(types_seen) ==
  IF types_seen = <<>> THEN "unknown"
  ELSE LET type_counts ==
             IF Cardinality(CounterKeys(types_seen)) > 1 /\ "null" \in CounterKeys(types_seen)
             THEN SelectSeq(types_seen, LAMBDA x : x # "null")
             ELSE types_seen
       IN IF "integer" \in CounterKeys(type_counts) /\ "float" \in CounterKeys(type_counts)
          THEN "float"
          ELSE MostCommon(type_counts)

\* the list as it comes, not sorted
SortedByPathAsGiven(fields, i) == fields

\* sorted(fields, key=lambda x: x["field_path"])
RECURSIVE SortedByPath(_, _)
SortedByPath(fields, i) ==
  IF i > Len(PathOrder) THEN <<>>
  ELSE SelectSeq(fields, LAMBDA x : x.field_path = PathOrder[i]) \o SortedByPath(fields, i + 1)

\* primary_type = types[0] if types else "unknown"
PrimaryType(types) == IF types # <<>> THEN types[1] ELSE "unknown"

\* "|".join(field_signatures), each signature f"{field['field_path']}:{primary_type}"
RECURSIVE Join(_)
Join(fields) ==
  IF fields = <<>> THEN <<>>
  ELSE <<fields[1].field_path, ":", PrimaryType(fields[1].types_seen)>>
         \o (IF Len(fields) > 1 THEN <<"|">> ELSE <<>>) \o Join(Tail(fields))

\* _calculate_schema_hash; the digest stands for the string it is taken of
CalculateSchemaHash(fields) == Join(SortedByPath(fields, 1))

NoSnapshot == [created |-> FALSE, file |-> <<>>, schema_hash |-> <<>>, data_type |-> <<>>]

InitSchema(seeds) ==
  /\ hash_seed \in seeds
  /\ snapshots = [v \in Versions |-> NoSnapshot]

\* create_dictionary (version 1) and create_new_version (version 2) for an uploaded file
CreateVersion(v, file) ==
  /\ ~snapshots[v].created
  /\ \A w \in Versions : w < v => snapshots[w].created
  /\ LET fields == ParseFile(file, hash_seed)
     IN snapshots' =
          [snapshots EXCEPT
             ![v] = [created |-> TRUE,
                     file |-> file,
                     schema_hash |-> CalculateSchemaHash(fields),
                     data_type |-> [i \in 1..Len(fields) |->
                                      [field_path |-> fields[i].field_path,
                                       data_type |-> InferType(fields[i].types_seen)]]]]
  /\ UNCHANGED <<hash_seed, exceptHash>>

\* the service process is started again: the string hashes get another salt
RestartProcess(seed) ==
  /\ seed # hash_seed
  /\ \E v \in Versions : ~snapshots[v].created
  /\ hash_seed' = seed
  /\ UNCHANGED <<snapshots, exceptHash>>

(***************************************************************************)
(* Version diff: VersionService.compare_versions over the Field rows that  *)
(* _process_field stored for two versions of a dictionary.                 *)
(***************************************************************************)

\* a Field row with the attributes compare_versions reads
BaseRow(p) ==
  [field_path |-> p, data_type |-> "string", semantic_type |-> None,
   is_nullable |-> TRUE, is_array |-> FALSE, is_pii |-> FALSE]

\* the rows of the model: the base row of a path and the rows that differ from it in
\* one attribute
FieldRows ==
  UNION {{BaseRow(p),
          [BaseRow(p) EXCEPT !.data_type = "integer"],
          [BaseRow(p) EXCEPT !.semantic_type = Some("email")],
          [BaseRow(p) EXCEPT !.is_nullable = FALSE],
          [BaseRow(p) EXCEPT !.is_array = TRUE],
          [BaseRow(p) EXCEPT !.is_pii = TRUE]} :
         p \in Paths}

\* the field lists a version can have: each path at most once
FieldLists ==
  {l \in UNION {[1..n -> FieldRows] : n \in 0..Cardinality(Paths)} :
     \A i, j \in 1..Len(l) : l[i].field_path = l[j].field_path => i = j}

\* the orders in which a set of path strings can iterate
PathSeeds == {s \in [1..Cardinality(Paths) -> Paths] : \A i, j \in 1..Len(s) : s[i] = s[j] => i = j}

NoVersion == [found |-> FALSE, rows |-> <<>>]

NoComparison == [called |-> FALSE, raised |-> "", changes |-> <<>>]

\* the ordered pairs of version numbers a caller can compare
Pairs == {pr \in Versions \X Versions : pr[1] # pr[2]}

\* the keys of {f.field_path: f for f in fields}
MapKeys(rows) == {rows[i].field_path : i \in 1..Len(rows)}

\* v_map[path]
MapGet(rows, path) == rows[CHOOSE i \in 1..Len(rows) : rows[i].field_path = path]

\* every pair of fields counts as different
FieldsDifferAlways(v1_field, v2_field) == TRUE

\* VersionService._fields_differ
FieldsDiffer(v1_field, v2_field) ==
  \/ v1_field.data_type # v2_field.data_type
  \/ v1_field.semantic_type # v2_field.semantic_type
  \/ v1_field.is_nullable # v2_field.is_nullable
  \/ v1_field.is_array # v2_field.is_array
  \/ v1_field.is_pii # v2_field.is_pii

\* any change of nullability breaks
IsBreakingChangeBothWays(v1_field, v2_field) ==
  \/ v1_field.data_type # v2_field.data_type
  \/ v1_field.is_nullable # v2_field.is_nullable
  \/ v1_field.is_array # v2_field.is_array

\* VersionService._is_breaking_change
IsBreakingChange(v1_field, v2_field) ==
  IF v1_field.data_type # v2_field.data_type THEN TRUE
  ELSE IF v1_field.is_nullable /\ ~v2_field.is_nullable THEN TRUE
  ELSE IF v1_field.is_array # v2_field.is_array THEN TRUE
  ELSE FALSE

\* one appended change record
Change(change_type, path, is_breaking) ==
  [change_type |-> change_type, field_path |-> path, is_breaking |-> is_breaking]

\* the paths of l, in order, that satisfy Keep, each turned into a record by Make
Collect(l, Keep(_), Make(_)) ==
  LET kept == SelectSeq(l, Keep)
  IN [i \in 1..Len(kept) |-> Make(kept[i])]

\* the field_path column of a list of rows
PathsIn(rows) == [i \in 1..Len(rows) |-> rows[i].field_path]

\* every field of version 2 reported
AddedChangesAll(v1_rows, v2_rows) ==
  Collect(PathsIn(v2_rows), LAMBDA p : TRUE, LAMBDA p : Change("added", p, FALSE))

\* for path, field in v2_map.items(): if path not in v1_map
AddedChanges(v1_rows, v2_rows) ==
  Collect(PathsIn(v2_rows), LAMBDA p : p \notin MapKeys(v1_rows),
          LAMBDA p : Change("added", p, FALSE))

\* for path, field in v1_map.items(): if path not in v2_map
RemovedChanges(v1_rows, v2_rows) ==
  Collect(PathsIn(v1_rows), LAMBDA p : p \notin MapKeys(v2_rows),
          LAMBDA p : Change("removed", p, TRUE))

\* for path in set(v1_map.keys()) & set(v2_map.keys()): if self._fields_differ(...)
ModifiedChanges(v1_rows, v2_rows, seed) ==
  Collect(seed,
          LAMBDA p : /\ p \in MapKeys(v1_rows) \cap MapKeys(v2_rows)
                     /\ FieldsDiffer(MapGet(v1_rows, p), MapGet(v2_rows, p)),
          LAMBDA p : Change("modified", p,
                            IsBreakingChange(MapGet(v1_rows, p), MapGet(v2_rows, p))))

\* the modified records put first
ChangesModifiedFirst(v1_rows, v2_rows, seed) ==
  ModifiedChanges(v1_rows, v2_rows, seed) \o AddedChanges(v1_rows, v2_rows)
    \o RemovedChanges(v1_rows, v2_rows)

\* the list `changes` of compare_versions
Changes(v1_rows, v2_rows, seed) ==
  AddedChanges(v1_rows, v2_rows) \o RemovedChanges(v1_rows, v2_rows)
    \o ModifiedChanges(v1_rows, v2_rows, seed)

InitDiff(seeds) ==
  /\ path_seed \in seeds
  /\ field_rows = [v \in Versions |-> NoVersion]
  /\ comparisons = [pr \in Pairs |-> NoComparison]

\* the Field rows of a version are committed, one _process_field per parsed field
StoreFields(v, rows) ==
  /\ ~field_rows[v].found
  /\ field_rows' = [field_rows EXCEPT ![v] = [found |-> TRUE, rows |-> rows]]
  /\ UNCHANGED <<path_seed, comparisons, exceptDiff>>

\* compare_versions(dictionary_id, version1_number, version2_number)
CompareVersions(version1_number, version2_number) ==
  LET version1 == field_rows[version1_number]
      version2 == field_rows[version2_number]
      result ==
        IF ~version1.found \/ ~version2.found
        THEN [called |-> TRUE, raised |-> "NotFoundError", changes |-> <<>>]
        ELSE [called |-> TRUE, raised |-> "",
              changes |-> Changes(version1.rows, version2.rows, path_seed)]
  IN /\ comparisons' = [comparisons EXCEPT ![<<version1_number, version2_number>>] = result]
     /\ comparisons' # comparisons
     /\ UNCHANGED <<path_seed, field_rows, exceptDiff>>

\* the service process is started again: path strings hash to other values
RestartService(seed) ==
  /\ seed # path_seed
  /\ path_seed' = seed
  /\ UNCHANGED <<field_rows, comparisons, exceptDiff>>

(***************************************************************************)
(* Classification: TypeInferrer.infer_type with its confidence score.      *)
(***************************************************************************)

\* the type tags of the calls
Tags == {"integer", "float", "string", "null"}

\* the arguments of the calls: lists of at most MaxTags tags
TagLists == UNION {[1..n -> Tags] : n \in 0..MaxTags}

RECURSIVE GCD(_, _)
GCD(a, b) == IF b = 0 THEN a ELSE GCD(b, a % b)

\* count / total * 100, kept as the fraction count / total in lowest terms
Ratio(count, total) ==
  IF count = 0 THEN <<0, 1>> ELSE <<count \div GCD(count, total), total \div GCD(count, total)>>

\* the tags that are counted, 'null' among them
TypeCountsWithNull(types_seen) == types_seen

\* type_counts after "Remove null from consideration if other types exist"
TypeCounts(types_seen) ==
  IF Cardinality(CounterKeys(types_seen)) > 1 /\ "null" \in CounterKeys(types_seen)
  THEN SelectSeq(types_seen, LAMBDA x : x # "null")
  ELSE types_seen

\* TypeInferrer.infer_type, the confidence of the returned pair
InferConfidence(types_seen) ==
  IF types_seen = <<>> THEN Ratio(0, 1)
  ELSE LET type_counts == TypeCounts(types_seen)
           total == Len(type_counts)
       IN IF "integer" \in CounterKeys(type_counts) /\ "float" \in CounterKeys(type_counts)
          THEN Ratio(Count(type_counts, "integer") + Count(type_counts, "float"), total)
          ELSE Ratio(Count(type_counts, MostCommon(type_counts)), total)

NoInference == [called |-> FALSE, types_seen |-> <<>>, data_type |-> "", confidence |-> <<0, 1>>]

\* self.type_inferrer.infer_type(types_seen)
InferTypeCall(types_seen) ==
  /\ inferred' = [called |-> TRUE, types_seen |-> types_seen,
                  data_type |-> InferType(types_seen),
                  confidence |-> InferConfidence(types_seen)]
  /\ inferred' # inferred
  /\ UNCHANGED <<detected, pii, mongo, exceptClass>>

(***************************************************************************)
(* Classification: SemanticTypeDetector.detect over a field's name, data   *)
(* type and sample values.                                                 *)
(***************************************************************************)

\* a sample value: a str with its text, or a number
Str(text) == [is_str |-> TRUE, text |-> text]

Num(text) == [is_str |-> FALSE, text |-> text]

\* the sample values of the calls
SampleValues ==
  {Str("a@b.com"), Str("123-45-6789"), Str("4111 1111 1111 1111"),
   Str("1234 5678 9012 3456"), Str("12345"), Str("hello"), Num("42")}

\* the sample values of lists longer than sample_values[:10]
LongValues == {Str("a@b.com"), Str("hello")}

\* lists one longer than sample_values[:10]: k times one value, then the other
LongLists ==
  {[i \in 1..(SampleLimit + 1) |-> IF i <= k THEN a ELSE b] :
     k \in 0..(SampleLimit + 1), a \in LongValues, b \in LongValues}

\* the sample lists of the calls
SampleLists == UNION {[1..n -> SampleValues] : n \in 0..MaxSamples} \cup LongLists

\* the field names of the calls
FieldNames == {"notes", "user_id", "email_address"}

\* the texts among the sample values that each compiled pattern matches
EMAIL_PATTERN == {"a@b.com"}

SSN_PATTERN == {"123-45-6789"}

CREDIT_CARD_PATTERN == {"4111 1111 1111 1111", "1234 5678 9012 3456"}

UUID_PATTERN == {}

ZIP_CODE_PATTERN == {"12345"}

PHONE_PATTERN == {}

URL_PATTERN == {}

ID_PATTERN == {"123-45-6789", "12345", "hello"}

\* the keywords that occur in field_name.lower()
KeywordsIn(field_name) ==
  CASE field_name = "email_address" -> {"email", "address"}
    [] OTHER -> {}

\* field_name.endswith('_id') or field_name.endswith('Id') or field_name == 'id'
NamesAnId(field_name) == field_name \in {"user_id", "_id"}

\* field_lower.endswith('_at'): none of the field names does
EndsWithAt(field_name) == field_name \in {}

\* SemanticTypeDetector._is_identifier
IsIdentifier(field_name, text) ==
  IF text \notin ID_PATTERN THEN FALSE
  ELSE NamesAnId(field_name) \/ "identifier" \in KeywordsIn(field_name)

\* SemanticTypeDetector._is_date: none of the sample texts parses as a date
IsDate(text) == text \in {}

\* SemanticTypeDetector._is_currency: none of the sample texts starts with a currency sign
IsCurrency(text) == text \in {}

\* the key of `matches` that one str value increments, by the elif chain
MatchedLabel(field_name, text) ==
  IF text \in EMAIL_PATTERN THEN "email"
  ELSE IF text \in SSN_PATTERN THEN "ssn"
  ELSE IF text \in CREDIT_CARD_PATTERN THEN "credit_card"
  ELSE IF text \in UUID_PATTERN THEN "uuid"
  ELSE IF text \in ZIP_CODE_PATTERN THEN "zip_code"
  ELSE IF text \in PHONE_PATTERN THEN "phone"
  ELSE IF text \in URL_PATTERN THEN "url"
  ELSE IF IsDate(text) THEN "date"
  ELSE IF IsCurrency(text) THEN "currency"
  ELSE IF IsIdentifier(field_name, text) THEN "identifier"
  ELSE "none"

\* the keys of the dict `matches`, in insertion order
MatchKeys ==
  <<"email", "ssn", "credit_card", "phone", "url", "uuid", "date", "zip_code", "currency",
    "identifier">>

\* sample_values[:10]
FirstSamples(sample_values) ==
  SubSeq(sample_values, 1, IF Len(sample_values) < SampleLimit THEN Len(sample_values) ELSE SampleLimit)

\* every checked value counted
StringSamplesAll(sample_values) == FirstSamples(sample_values)

\* [v for v in sample_values[:10] if isinstance(v, str)]
StringSamples(sample_values) == SelectSeq(FirstSamples(sample_values), LAMBDA v : v.is_str)

\* matches[label] after the loop
MatchCount(field_name, sample_values, label) ==
  Cardinality({i \in 1..Len(FirstSamples(sample_values)) :
                 /\ FirstSamples(sample_values)[i].is_str
                 /\ MatchedLabel(field_name, FirstSamples(sample_values)[i].text) = label})

\* count / total_samples >= 0.7
ReachesThreshold(count, total_samples) == count * 100 >= SemanticThresholdPercent * total_samples

\* SemanticTypeDetector._detect_string_semantic_type
DetectStringSemanticType(field_name, sample_values) ==
  LET total_samples == Len(StringSamples(sample_values))
      reaching == SelectSeq(MatchKeys,
                            LAMBDA l : ReachesThreshold(MatchCount(field_name, sample_values, l),
                                                        total_samples))
  IN IF total_samples = 0 THEN None
     ELSE IF reaching # <<>> THEN Some(reaching[1])
     ELSE None

\* SemanticTypeDetector._detect_number_semantic_type
DetectNumberSemanticType(field_name) ==
  IF KeywordsIn(field_name) \cap {"price", "cost", "amount", "balance", "revenue", "total", "payment"} # {}
  THEN Some("currency")
  ELSE IF NamesAnId(field_name) THEN Some("identifier")
  ELSE IF KeywordsIn(field_name) \cap {"count", "quantity", "qty", "number_of"} # {} THEN Some("count")
  ELSE None

\* SemanticTypeDetector._detect_from_field_name
DetectFromFieldName(field_name, data_type) ==
  LET has(k) == k \in KeywordsIn(field_name)
  IN IF has("email") THEN Some("email")
     ELSE IF has("ssn") \/ has("social_security") THEN Some("ssn")
     ELSE IF has("credit_card") \/ (has("card") /\ has("last")) THEN Some("credit_card")
     ELSE IF has("phone") \/ has("mobile") \/ has("tel") THEN Some("phone")
     ELSE IF has("url") \/ has("link") \/ has("website") THEN Some("url")
     ELSE IF has("date") \/ has("time") \/ EndsWithAt(field_name) THEN Some("date")
     ELSE IF has("zip") \/ has("postal") THEN Some("zip_code")
     ELSE IF NamesAnId(field_name) THEN Some("identifier")
     ELSE IF has("name") \/ has("title") \/ has("label") THEN Some("name")
     ELSE IF has("status") \/ has("type") \/ has("category") \/ has("tier") \/ has("level")
     THEN Some("category")
     ELSE IF data_type \in {"integer", "number", "float"}
               /\ (has("price") \/ has("cost") \/ has("amount") \/ has("balance")
                   \/ has("revenue") \/ has("total"))
     THEN Some("currency")
     ELSE IF data_type \in {"integer", "number", "float"}
               /\ (has("count") \/ has("quantity") \/ has("qty"))
     THEN Some("count")
     ELSE None

\* what the pattern step of detect returned: not run, or the label or None
PatternStep(field_name, sample_values, data_type) ==
  IF sample_values # <<>> /\ data_type = "string"
  THEN [ran |-> TRUE, label |-> DetectStringSemanticType(field_name, sample_values)]
  ELSE [ran |-> FALSE, label |-> None]

\* SemanticTypeDetector.detect, of a detector built with use_ai=False
DetectSemantic(field_name, sample_values, data_type) ==
  IF sample_values = <<>> THEN DetectFromFieldName(field_name, data_type)
  ELSE IF data_type = "string" /\ DetectStringSemanticType(field_name, sample_values) # None
  THEN DetectStringSemanticType(field_name, sample_values)
  ELSE IF data_type \in {"integer", "number", "float"} /\ DetectNumberSemanticType(field_name) # None
  THEN DetectNumberSemanticType(field_name)
  ELSE DetectFromFieldName(field_name, data_type)

NoDetection ==
  [called |-> FALSE, field_name |-> "", sample_values |-> <<>>, data_type |-> "",
   pattern |-> [ran |-> FALSE, label |-> None], semantic_type |-> None]

\* self.semantic_detector.detect(field_name, sample_values, data_type)
Detect(field_name, sample_values, data_type) ==
  /\ detected' = [called |-> TRUE, field_name |-> field_name, sample_values |-> sample_values,
                  data_type |-> data_type,
                  pattern |-> PatternStep(field_name, sample_values, data_type),
                  semantic_type |-> DetectSemantic(field_name, sample_values, data_type)]
  /\ detected' # detected
  /\ UNCHANGED <<inferred, pii, mongo, exceptClass>>

(***************************************************************************)
(* Classification: PIIDetector.detect_pii over a field's name, semantic    *)
(* type and sample values.                                                 *)
(***************************************************************************)

\* the texts among the sample values that PIIDetector.SSN_PATTERN matches
PII_SSN_PATTERN == {"123-45-6789"}

\* the texts among the sample values that PIIDetector.CC_PATTERN matches
CC_PATTERN == {"4111 1111 1111 1111", "1234 5678 9012 3456"}

\* re.sub(r'[\s-]', '', value), digit by digit
DigitsOf(text) ==
  CASE text = "4111 1111 1111 1111" -> <<4, 1, 1, 1, 1, 1, 1, 1, 1, 1, 1, 1, 1, 1, 1, 1>>
    [] text = "1234 5678 9012 3456" -> <<1, 2, 3, 4, 5, 6, 7, 8, 9, 0, 1, 2, 3, 4, 5, 6>>
    [] OTHER -> <<>>

\* sum(digits_of(d * 2)) for one digit d
DoubledDigitSum(d) == IF d * 2 < 10 THEN d * 2 ELSE 1 + (d * 2 - 10)

\* the checksum over digits[1..i]: digits at odd distance from the end are doubled
RECURSIVE LuhnSum(_, _)
LuhnSum(digits, i) ==
  IF i = 0 THEN 0
  ELSE LuhnSum(digits, i - 1)
       + (IF (Len(digits) - i) % 2 = 0 THEN digits[i] ELSE DoubledDigitSum(digits[i]))

\* luhn_check
LuhnCheck(digits) == LuhnSum(digits, Len(digits)) % 10 = 0

\* PIIDetector._is_credit_card
IsCreditCard(text) == IF text \notin CC_PATTERN THEN FALSE ELSE LuhnCheck(DigitsOf(text))

\* pii_indicators, in insertion order
PiiIndicators ==
  <<[indicator |-> "email", pii_type |-> "email"],
    [indicator |-> "phone", pii_type |-> "phone"],
    [indicator |-> "mobile", pii_type |-> "phone"],
    [indicator |-> "ssn", pii_type |-> "ssn"],
    [indicator |-> "social_security", pii_type |-> "ssn"],
    [indicator |-> "credit_card", pii_type |-> "credit_card"],
    [indicator |-> "passport", pii_type |-> "passport"],
    [indicator |-> "driver_license", pii_type |-> "drivers_license"],
    [indicator |-> "address", pii_type |-> "address"],
    [indicator |-> "ip_address", pii_type |-> "ip_address"]>>

\* the entries of pii_indicators whose indicator occurs in field_name.lower()
IndicatorsIn(field_name) ==
  SelectSeq(PiiIndicators, LAMBDA e : e.indicator \in KeywordsIn(field_name))

\* sum(1 for v in sample_values if isinstance(v, str) and self.SSN_PATTERN.match(v))
SsnCount(sample_values) ==
  Cardinality({i \in 1..Len(sample_values) :
                 sample_values[i].is_str /\ sample_values[i].text \in PII_SSN_PATTERN})

\* sum(1 for v in sample_values if isinstance(v, str) and self._is_credit_card(v))
CcCount(sample_values) ==
  Cardinality({i \in 1..Len(sample_values) :
                 sample_values[i].is_str /\ IsCreditCard(sample_values[i].text)})

\* count / len(sample_values) >= 0.5
AtLeastHalf(count, total) == count * 100 >= PiiThresholdPercent * total

\* count / len(sample_values) > 0.5
ExceedsHalf(count, total) == count * 100 > PiiThresholdPercent * total

\* PIIDetector.detect_pii
DetectPiiResult(field_name, semantic_type, sample_values) ==
  IF semantic_type \in {Some("email"), Some("phone")} THEN <<TRUE, semantic_type>>
  ELSE IF IndicatorsIn(field_name) # <<>> THEN <<TRUE, Some(IndicatorsIn(field_name)[1].pii_type)>>
  ELSE IF sample_values # <<>> /\ ExceedsHalf(SsnCount(sample_values), Len(sample_values))
  THEN <<TRUE, Some("ssn")>>
  ELSE IF sample_values # <<>> /\ ExceedsHalf(CcCount(sample_values), Len(sample_values))
  THEN <<TRUE, Some("credit_card")>>
  ELSE <<FALSE, None>>

NoPii ==
  [called |-> FALSE, field_name |-> "", semantic_type |-> None, sample_values |-> <<>>,
   result |-> <<FALSE, None>>]

\* the semantic types of the calls
SemanticTypes == {None, Some("email"), Some("ssn")}

\* self.pii_detector.detect_pii(field_path, field_name, semantic_type, sample_values)
DetectPii(field_name, semantic_type, sample_values) ==
  /\ pii' = [called |-> TRUE, field_name |-> field_name, semantic_type |-> semantic_type,
             sample_values |-> sample_values,
             result |-> DetectPiiResult(field_name, semantic_type, sample_values)]
  /\ pii' # pii
  /\ UNCHANGED <<inferred, detected, mongo, exceptClass>>

(***************************************************************************)
(* MongoDB Extended JSON: MongoDBParser.parse_file and the fields that     *)
(* create_dictionary stores from its result.                               *)
(***************************************************************************)

\* JSON values: a str, an int, a dict (items: its keys and values in order) or a list
JStr(text) == [kind |-> "str", text |-> text, items |-> <<>>]

JInt(text) == [kind |-> "int", text |-> text, items |-> <<>>]

JDict(items) == [kind |-> "dict", text |-> "", items |-> items]

\* None; True and False, which equal 1 and 0; a float; the Decimal that ijson makes of a
\* number with a fraction
JNull == [kind |-> "null", text |-> "", items |-> <<>>]

JBool(text) == [kind |-> "bool", text |-> text, items |-> <<>>]

JFloat(text) == [kind |-> "float", text |-> text, items |-> <<>>]

JDecimal(text) == [kind |-> "decimal", text |-> text, items |-> <<>>]

JList(values) == [kind |-> "list", text |-> "", items |-> [i \in 1..Len(values) |-> [key |-> "", value |-> values[i]]]]

Item(key, value) == [key |-> key, value |-> value]

\* key in value
HasKey(value, key) == \E i \in 1..Len(value.items) : value.items[i].key = key

\* value[key]
GetKey(value, key) == value.items[CHOOSE i \in 1..Len(value.items) : value.items[i].key = key].value

\* the texts of the model that MongoDBFieldMetadata.OBJECTID_PATTERN matches
OBJECTID_PATTERN == {"507f1f77bcf86cd799439011", "507f1f77bcf86cd799439012"}

\* the texts of the model that MongoDBFieldMetadata.ISO_DATE_PATTERN matches
ISO_DATE_PATTERN == {"2023-01-15T10:30:00Z"}

\* the well-formed type wrappers
OidWrapper == JDict(<<Item("$oid", JStr("507f1f77bcf86cd799439011"))>>)

OtherOidWrapper == JDict(<<Item("$oid", JStr("507f1f77bcf86cd799439012"))>>)

DateWrapper == JDict(<<Item("$date", JStr("2023-01-15T10:30:00Z"))>>)

DateLongWrapper == JDict(<<Item("$date", JDict(<<Item("$numberLong", JStr("1673777400000"))>>))>>)

LongWrapper == JDict(<<Item("$numberLong", JStr("9999999999"))>>)

DecimalWrapper == JDict(<<Item("$numberDecimal", JStr("1234.56"))>>)

BinaryWrapper ==
  JDict(<<Item("$binary", JDict(<<Item("base64", JStr("SGVsbG8=")), Item("subType", JStr("0"))>>))>>)

WellFormed ==
  {OidWrapper, OtherOidWrapper, DateWrapper, DateLongWrapper, LongWrapper, DecimalWrapper,
   BinaryWrapper}

\* dicts that carry a marker with an inner value that no branch of observe_value takes
Malformed ==
  {JDict(<<Item("$oid", JStr("xyz"))>>), JDict(<<Item("$binary", JStr("SGVsbG8="))>>)}

\* a wrapper with a further key, values without a marker, and a wrapper under a plain key
OtherValues ==
  {JDict(<<Item("$oid", JStr("507f1f77bcf86cd799439011")), Item("extra", JDict(<<Item("k", JInt("1"))>>))>>),
   JInt("42"),
   JDict(<<Item("ref", OidWrapper)>>),
   JList(<<DateWrapper, JInt("42")>>)}

FieldValues == WellFormed \cup Malformed \cup OtherValues

\* the records of the files: "_id" and "createdAt", each present or not
Records ==
  {JDict(<<Item("_id", v)>>) : v \in FieldValues}
    \cup {JDict(<<Item("createdAt", v)>>) : v \in WellFormed}
    \cup {JDict(<<Item("_id", v), Item("createdAt", w)>>) : v \in FieldValues, w \in WellFormed}

\* the files: one root object, or a root array of two records that hold "_id"
JsonFiles ==
  {[is_array |-> FALSE, records |-> <<r>>] : r \in Records}
    \cup {[is_array |-> TRUE, records |-> <<JDict(<<Item("_id", v)>>), JDict(<<Item("_id", w)>>)>>] :
            v \in FieldValues, w \in FieldValues}

Markers == {"$oid", "$date", "$numberLong", "$numberDecimal", "$binary"}

\* a marker occurs as a key somewhere in the value
RECURSIVE HasMarker(_)
HasMarker(value) ==
  \E i \in 1..Len(value.items) :
    value.items[i].key \in Markers \/ HasMarker(value.items[i].value)

\* DictionaryService._detect_mongodb_format: a marker in the head of the file
DetectMongodbFormat(file) == \E i \in 1..Len(file.records) : HasMarker(file.records[i])

\* the files that create_dictionary gives to MongoDBParser
MongoFiles == {file \in JsonFiles : DetectMongodbFormat(file)}

\* MongoDBParser._is_mongodb_type_wrapper
IsMongodbTypeWrapper(obj) == obj.kind = "dict" /\ \E marker \in Markers : HasKey(obj, marker)

\* FieldMetadata.__init__
NewFieldMetadata(field_path, field_name, parent_path, nesting_level) ==
  [field_path |-> field_path, field_name |-> field_name, parent_path |-> parent_path,
   nesting_level |-> nesting_level, values |-> <<>>, types_seen |-> {}, null_count |-> 0,
   total_count |-> 0, is_array |-> FALSE, array_item_types |-> {}]

\* a sample as the detectors read it: a str with its text, or another value
AsSample(value) == IF value.kind = "str" THEN Str(value.text) ELSE Num(value.text)

\* _add_sample without the limit of ten samples
AddSampleUnbounded(meta, sample) ==
  IF \A i \in 1..Len(meta.values) : meta.values[i] # sample
  THEN [meta EXCEPT !.values = Append(@, sample)]
  ELSE meta

\* FieldMetadata._add_sample
AddSample(meta, sample) ==
  IF Len(meta.values) < MaxFieldSamples /\ \A i \in 1..Len(meta.values) : meta.values[i] # sample
  THEN [meta EXCEPT !.values = Append(@, sample)]
  ELSE meta

\* type(item).__name__
TypeName(value) == value.kind

\* FieldMetadata.observe_value
BaseObserveValue(meta, value) ==
  LET counted == [meta EXCEPT !.total_count = @ + 1]
  IN CASE value.kind = "null" ->
            [counted EXCEPT !.null_count = @ + 1, !.types_seen = @ \cup {"null"}]
       [] value.kind = "bool" ->
            AddSample([counted EXCEPT !.types_seen = @ \cup {"boolean"}], AsSample(value))
       [] value.kind = "int" ->
            AddSample([counted EXCEPT !.types_seen = @ \cup {"integer"}], AsSample(value))
       [] value.kind = "float" ->
            AddSample([counted EXCEPT !.types_seen = @ \cup {"float"}], AsSample(value))
       [] value.kind = "str" ->
            AddSample([counted EXCEPT !.types_seen = @ \cup {"string"}], AsSample(value))
       [] value.kind = "list" ->
            [counted EXCEPT !.is_array = TRUE, !.types_seen = @ \cup {"array"},
                            !.array_item_types =
                              @ \cup {TypeName(value.items[i].value) :
                                        i \in {j \in 1..Len(value.items) : j <= ArrayItemLimit}}]
       [] value.kind = "dict" -> [counted EXCEPT !.types_seen = @ \cup {"object"}]
       [] OTHER -> counted

\* the branches of MongoDBFieldMetadata.observe_value: count, add the tag, add the sample
TypedLeaf(meta, tag, sample) ==
  AddSample([meta EXCEPT !.total_count = @ + 1, !.types_seen = @ \cup {tag}], sample)

\* every value handed on to FieldMetadata.observe_value, a type wrapper too
ObserveValueAsObject(meta, value) == BaseObserveValue(meta, value)

\* MongoDBFieldMetadata.observe_value
ObserveValue(meta, value) ==
  IF value.kind # "dict" THEN BaseObserveValue(meta, value)
  ELSE IF /\ HasKey(value, "$oid")
          /\ GetKey(value, "$oid").kind = "str"
          /\ GetKey(value, "$oid").text \in OBJECTID_PATTERN
  THEN TypedLeaf(meta, "mongodb_objectid", AsSample(GetKey(value, "$oid")))
  ELSE IF /\ HasKey(value, "$date")
          /\ GetKey(value, "$date").kind = "str"
          /\ GetKey(value, "$date").text \in ISO_DATE_PATTERN
  THEN TypedLeaf(meta, "mongodb_date", AsSample(GetKey(value, "$date")))
  ELSE IF /\ HasKey(value, "$date")
          /\ GetKey(value, "$date").kind = "dict"
          /\ HasKey(GetKey(value, "$date"), "$numberLong")
  THEN TypedLeaf(meta, "mongodb_date", AsSample(GetKey(GetKey(value, "$date"), "$numberLong")))
  ELSE IF HasKey(value, "$numberLong") /\ GetKey(value, "$numberLong").kind = "str"
  THEN TypedLeaf(meta, "mongodb_long", AsSample(GetKey(value, "$numberLong")))
  ELSE IF HasKey(value, "$numberDecimal") /\ GetKey(value, "$numberDecimal").kind = "str"
  THEN TypedLeaf(meta, "mongodb_decimal", AsSample(GetKey(value, "$numberDecimal")))
  ELSE IF HasKey(value, "$binary") /\ GetKey(value, "$binary").kind = "dict"
  THEN TypedLeaf(meta, "mongodb_binary", Str("<binary>"))
  ELSE BaseObserveValue(meta, value)

\* f"{parent_path}.{key}" if parent_path else key
FieldPath(parent_path, key) == IF parent_path # "" THEN parent_path \o "." \o key ELSE key

\* the place of field_path in fields_map, 0 if it is not in it
PlaceOf(fields_map, field_path) ==
  IF \E i \in 1..Len(fields_map) : fields_map[i].field_path = field_path
  THEN CHOOSE i \in 1..Len(fields_map) : fields_map[i].field_path = field_path
  ELSE 0

\* MongoDBParser._extract_fields; fields_map is the dict in insertion order, and
\* ExtractItems is its loop over obj.items() or obj[:10] from item i on
RECURSIVE ExtractFields(_, _, _, _)
RECURSIVE ExtractItems(_, _, _, _, _)
ExtractFields(obj, parent_path, fields_map, depth) ==
  IF depth > MaxDepth THEN fields_map
  ELSE IF obj.kind = "dict"
  THEN IF IsMongodbTypeWrapper(obj) THEN fields_map
       ELSE ExtractItems(obj, 1, parent_path, fields_map, depth)
  ELSE IF obj.kind = "list" THEN ExtractItems(obj, 1, parent_path, fields_map, depth)
  ELSE fields_map

ExtractItems(obj, i, parent_path, fields_map, depth) ==
  IF i > Len(obj.items) \/ (obj.kind = "list" /\ i > ArrayItemLimit) THEN fields_map
  ELSE IF obj.kind = "list"
  THEN ExtractItems(obj, i + 1, parent_path,
                    ExtractFields(obj.items[i].value, parent_path, fields_map, depth), depth)
  ELSE LET key == obj.items[i].key
           value == obj.items[i].value
           field_path == FieldPath(parent_path, key)
           created == IF PlaceOf(fields_map, field_path) = 0
                      THEN Append(fields_map, NewFieldMetadata(field_path, key, parent_path, depth))
                      ELSE fields_map
           observed == [created EXCEPT ![PlaceOf(created, field_path)] = ObserveValue(@, value)]
           recursed == IF value.kind \in {"dict", "list"} /\ ~IsMongodbTypeWrapper(value)
                       THEN ExtractFields(value, field_path, observed, depth + 1)
                       ELSE observed
       IN ExtractItems(obj, i + 1, parent_path, recursed, depth)

\* the loop of _parse_array_root and _parse_object_root over the records from i on
RECURSIVE ParseRecords(_, _, _)
ParseRecords(records, i, fields_map) ==
  IF i > Len(records) \/ i > MaxSampleRecords THEN fields_map
  ELSE ParseRecords(records, i + 1, ExtractFields(records[i], "", fields_map, 0))

\* the orders in which list(types_seen) can come: one order of the tags and its reverse
TagOrder ==
  <<"mongodb_objectid", "mongodb_date", "mongodb_long", "mongodb_decimal", "mongodb_binary",
    "object", "array", "integer", "string">>

TagOrders == {TagOrder, [i \in 1..Len(TagOrder) |-> TagOrder[Len(TagOrder) + 1 - i]]}

\* FieldMetadata.to_dict
MongoToDict(meta, order) == [meta EXCEPT !.types_seen = ListOfSet(meta.types_seen, order)]

\* MongoDBParser.parse_file: 'fields': [field.to_dict() for field in fields_map.values()]
MongoParseFile(file, order) ==
  LET fields_map == ParseRecords(file.records, 1, <<>>)
  IN [i \in 1..Len(fields_map) |-> MongoToDict(fields_map[i], order)]

\* DictionaryService._process_field: the columns of the stored Field
ProcessField(field_meta) ==
  LET data_type == InferType(field_meta.types_seen)
      semantic_type == DetectSemantic(field_meta.field_name, field_meta.values, data_type)
      detected_pii == DetectPiiResult(field_meta.field_name, semantic_type, field_meta.values)
  IN [field_path |-> field_meta.field_path, field_name |-> field_meta.field_name,
      data_type |-> data_type, semantic_type |-> semantic_type,
      is_array |-> field_meta.is_array, is_pii |-> detected_pii[1], pii_type |-> detected_pii[2],
      sample_values |-> field_meta.values,
      confidence_score |-> InferConfidence(field_meta.types_seen)]

NoMongo == [created |-> FALSE, file |-> [is_array |-> FALSE, records |-> <<>>], parsed |-> <<>>, fields |-> <<>>]

\* DictionaryService.create_dictionary of a file in which _detect_mongodb_format finds a
\* marker: parse it with MongoDBParser and store one Field per parsed field
CreateMongoDictionary(file, order) ==
  /\ DetectMongodbFormat(file)
  /\ LET parse_result == MongoParseFile(file, order)
     IN mongo' = [created |-> TRUE, file |-> file, parsed |-> parse_result,
                  fields |-> [i \in 1..Len(parse_result) |-> ProcessField(parse_result[i])]]
  /\ mongo' # mongo
  /\ UNCHANGED <<inferred, detected, pii, exceptClass>>

(***************************************************************************)
(* Timeouts: timeout_utils.with_timeout and timeout_context on the SIGALRM *)
(* of a POSIX process, and XMLParser.parse_file, which runs its phases     *)
(* under them.  The alarm is asynchronous: it is delivered between two     *)
(* statements of the main thread, so each statement that touches the       *)
(* signal state is a step of its own.  seconds = 0 stands for None.        *)
(***************************************************************************)
NoGuard ==
  [pc |-> "idle", kind |-> "", seconds |-> 0, old_handler |-> "", exc |-> "none",
   before |-> "", owner |-> ""]

NoXml == [phase |-> "idle", started |-> 0, is_array |-> FALSE, raised |-> "none",
          cause |-> "none"]

InitSig(handlers) ==
  /\ clock = 0
  /\ handler \in handlers
  /\ alarm_at = 0
  /\ guard = NoGuard
  /\ xml = NoXml

\* what the wrapped function or the block may raise by itself
BodyExceptions == {"XMLSyntaxError", "ValueError"}

\* wrapper(*args) of with_timeout up to `if seconds is None: return func(...)`;
\* TimeoutContext.__enter__ up to its first statement on the signal
Enter(kind, seconds, owner) ==
  guard' = [NoGuard EXCEPT !.pc = IF seconds = 0 THEN "plain" ELSE "enter",
                           !.kind = kind, !.seconds = seconds, !.before = handler,
                           !.owner = owner]

\* a caller calls a function decorated with with_timeout(seconds), or enters a
\* timeout_context(seconds) block
GuardCall(kind, seconds) ==
  /\ guard.pc = "idle"
  /\ xml.phase = "idle"
  /\ kind = "context" => seconds # 0
  /\ Enter(kind, seconds, "caller")
  /\ UNCHANGED <<clock, handler, alarm_at, xml>>
  /\ UNCHANGED exceptSig

\* old_handler = signal.signal(signal.SIGALRM, timeout_handler)
Install ==
  /\ guard.pc = "enter"
  /\ guard' = [guard EXCEPT !.pc = "installed", !.old_handler = handler]
  /\ handler' = "timeout_handler"
  /\ UNCHANGED <<clock, alarm_at, xml>>
  /\ UNCHANGED exceptSig

\* signal.alarm(seconds)
Arm ==
  /\ guard.pc = "installed"
  /\ alarm_at' = clock + guard.seconds
  /\ guard' = [guard EXCEPT !.pc = "armed"]
  /\ UNCHANGED <<clock, handler, xml>>
  /\ UNCHANGED exceptSig

\* the try statement of the wrapper is entered; __enter__ returns and the block starts
EnterBody ==
  /\ guard.pc = "armed"
  /\ guard' = [guard EXCEPT !.pc = "body"]
  /\ UNCHANGED <<clock, handler, alarm_at, xml>>
  /\ UNCHANGED exceptSig

\* func(*args, **kwargs) returns; the block ends
BodyReturns ==
  /\ guard.pc \in {"body", "plain"}
  /\ guard' = [guard EXCEPT !.pc = IF guard.pc = "plain" THEN "done"
                                   ELSE IF guard.kind = "decorator" THEN "returning"
                                   ELSE "finally"]
  /\ UNCHANGED <<clock, handler, alarm_at, xml>>
  /\ UNCHANGED exceptSig

\* func(*args, **kwargs) raises e; the block raises e
BodyRaises(e) ==
  /\ guard.pc \in {"body", "plain"}
  /\ guard' = [guard EXCEPT !.pc = IF guard.pc = "plain" THEN "done" ELSE "finally",
                            !.exc = e]
  /\ UNCHANGED <<clock, handler, alarm_at, xml>>
  /\ UNCHANGED exceptSig

\* signal.alarm(0) after result = func(...), then return result: on to the finally clause
CancelAfterReturn ==
  /\ guard.pc = "returning"
  /\ alarm_at' = 0
  /\ guard' = [guard EXCEPT !.pc = "finally"]
  /\ UNCHANGED <<clock, handler, xml>>
  /\ UNCHANGED exceptSig

\* except TimeoutError: signal.alarm(0), log, raise: on to the finally clause
CancelBeforeReraise ==
  /\ guard.pc = "except"
  /\ alarm_at' = 0
  /\ guard' = [guard EXCEPT !.pc = "finally"]
  /\ UNCHANGED <<clock, handler, xml>>
  /\ UNCHANGED exceptSig

\* signal.alarm(0) of the finally clause, and of __exit__
CancelInFinally ==
  /\ guard.pc = "finally"
  /\ alarm_at' = 0
  /\ guard' = [guard EXCEPT !.pc = "restore"]
  /\ UNCHANGED <<clock, handler, xml>>
  /\ UNCHANGED exceptSig

\* signal.signal(signal.SIGALRM, old_handler) of the finally clause, and of __exit__
RestoreHandler ==
  /\ guard.pc = "restore"
  /\ handler' = guard.old_handler
  /\ guard' = [guard EXCEPT !.pc = "done"]
  /\ UNCHANGED <<clock, alarm_at, xml>>
  /\ UNCHANGED exceptSig

\* timeout_handler raises TimeoutError in the main thread, at the statement it interrupts:
\* inside the try statement the except clause takes it, inside the block __exit__ takes it,
\* anywhere else it leaves the wrapper (or __enter__, or __exit__) at once
TimeoutRaised(g) ==
  IF g.pc \in {"body", "returning"}
    THEN [g EXCEPT !.pc = IF g.kind = "decorator" THEN "except" ELSE "finally",
                   !.exc = "TimeoutError"]
  ELSE IF g.pc \in {"armed", "finally"}
    THEN [g EXCEPT !.pc = "done", !.exc = "TimeoutError"]
  ELSE g

\* time passes; an alarm that comes due is delivered to the installed handler
Pass ==
  /\ clock + ClockStep <= MaxClock
  /\ clock' = clock + ClockStep
  /\ IF alarm_at # 0 /\ clock' >= alarm_at
       THEN /\ alarm_at' = 0
            /\ guard' = IF handler = "timeout_handler" THEN TimeoutRaised(guard) ELSE guard
       ELSE UNCHANGED <<alarm_at, guard>>
  /\ UNCHANGED <<handler, xml>>
  /\ UNCHANGED exceptSig

\* the caller of the decorated function, or of the block, goes on
GuardReturn ==
  /\ guard.pc = "done"
  /\ guard.owner = "caller"
  /\ guard' = NoGuard
  /\ UNCHANGED <<clock, handler, alarm_at, xml>>
  /\ UNCHANGED exceptSig

\* XMLParser.parse_file up to the try statement: the size check
XmlParseFileStart(oversize) ==
  /\ guard.pc = "idle"
  /\ xml.phase = "idle"
  /\ xml' = IF oversize
              THEN [NoXml EXCEPT !.phase = "done", !.started = clock,
                                 !.raised = "ValidationError", !.cause = "oversize"]
              ELSE [NoXml EXCEPT !.phase = "dtd", !.started = clock]
  /\ UNCHANGED <<clock, handler, alarm_at, guard>>
  /\ UNCHANGED exceptSig

\* _extract_dtd (its syntax errors are logged and dropped), then the call of
\* _detect_structure, which is decorated with with_timeout(30)
XmlExtractDtd ==
  /\ xml.phase = "dtd"
  /\ xml' = [xml EXCEPT !.phase = "detect"]
  /\ Enter("decorator", DetectTimeout, "parse_file")
  /\ UNCHANGED <<clock, handler, alarm_at>>
  /\ UNCHANGED exceptSig

\* the except clauses of parse_file: TimeoutError, etree.XMLSyntaxError and Exception are
\* all turned into XMLParseError
XmlRaised(x, exc) ==
  [x EXCEPT !.phase = "done", !.raised = "XMLParseError",
            !.cause = IF exc = "TimeoutError" THEN "timeout"
                      ELSE IF exc = "XMLSyntaxError" THEN "malformed" ELSE "other"]

\* _detect_structure is over: parse_file calls _parse_collection or _parse_single_record,
\* both decorated with with_timeout(None), or ends in one of its except clauses
XmlDetected(is_array) ==
  /\ xml.phase = "detect"
  /\ guard.pc = "done"
  /\ IF guard.exc = "none"
       THEN /\ xml' = [xml EXCEPT !.phase = "parse", !.is_array = is_array]
            /\ Enter("decorator", 0, "parse_file")
       ELSE /\ xml' = XmlRaised(xml, guard.exc)
            /\ guard' = NoGuard
  /\ UNCHANGED <<clock, handler, alarm_at>>
  /\ UNCHANGED exceptSig

\* _parse_collection or _parse_single_record is over: parse_file returns the result or
\* ends in one of its except clauses
XmlParsed ==
  /\ xml.phase = "parse"
  /\ guard.pc = "done"
  /\ xml' = IF guard.exc = "none" THEN [xml EXCEPT !.phase = "done"]
            ELSE XmlRaised(xml, guard.exc)
  /\ guard' = NoGuard
  /\ UNCHANGED <<clock, handler, alarm_at>>
  /\ UNCHANGED exceptSig

\* the caller of parse_file goes on
XmlParseFileReturn ==
  /\ xml.phase = "done"
  /\ xml' = NoXml
  /\ UNCHANGED <<clock, handler, alarm_at, guard>>
  /\ UNCHANGED exceptSig

(***************************************************************************)
(* Syntax errors: JSONParser.parse_file and the parse phases of            *)
(* XMLParser.parse_file on a file given as the sequence of its records     *)
(* (array items, record elements), each well-formed ("ok") or holding a    *)
(* syntax error ("bad").  The result is the error raised and the records   *)
(* whose fields went into fields_map.                                      *)
(***************************************************************************)
ItemLists == UNION { [1..n -> {"ok", "bad"}] : n \in 0..MaxItems }

Parsed(raised, records) == [raised |-> raised, records |-> records]

\* JSONParser._parse_array_root: ijson.items parses an item when the loop asks for it, and
\* the loop leaves at max_samples before it asks for the rest of the file
RECURSIVE JsonParseArrayRoot(_, _, _, _)
JsonParseArrayRoot(items, i, records, max_samples) ==
  IF i > Len(items) THEN Parsed("none", records)
  ELSE IF items[i] = "bad" THEN Parsed("JSONError", <<>>)
  ELSE IF Len(records) >= max_samples THEN Parsed("none", records)
  ELSE JsonParseArrayRoot(items, i + 1, Append(records, i), max_samples)

\* JSONParser._parse_object_root: ijson.items(f, '') yields the object once all of it is read
JsonParseObjectRoot(items) ==
  IF \E i \in 1..Len(items) : items[i] = "bad" THEN Parsed("JSONError", <<>>)
  ELSE Parsed("none", <<1>>)

\* XMLParser._parse_collection: etree.iterparse(..., recover=True) raises no
\* XMLSyntaxError; at a broken element the library goes on behind it ("skip") or ends the
\* document there ("stop")
RECURSIVE XmlParseCollection(_, _, _, _, _)
XmlParseCollection(items, i, records, max_samples, recovery) ==
  IF i > Len(items) THEN Parsed("none", records)
  ELSE IF items[i] = "bad"
    THEN IF recovery = "stop" THEN Parsed("none", records)
         ELSE XmlParseCollection(items, i + 1, records, max_samples, recovery)
  ELSE IF Len(records) >= max_samples THEN Parsed("none", records)
  ELSE XmlParseCollection(items, i + 1, Append(records, i), max_samples, recovery)

\* XMLParser._parse_single_record: etree.parse without recover, XMLSyntaxError becomes
\* XMLParseError
XmlParseSingleRecord(items) ==
  IF \E i \in 1..Len(items) : items[i] = "bad" THEN Parsed("XMLParseError", <<>>)
  ELSE Parsed("none", <<1>>)

NoParse ==
  [called |-> FALSE, format |-> "", is_array |-> FALSE, items |-> <<>>, max_samples |-> 0,
   recovery |-> "", raised |-> "none", records |-> <<>>]

\* parse_file of JSONParser(max_samples) or XMLParser(max_samples) on a file
ParseFileCall(format, is_array, items, max_samples, recovery) ==
  LET result == IF format = "json"
                  THEN IF is_array THEN JsonParseArrayRoot(items, 1, <<>>, max_samples)
                       ELSE JsonParseObjectRoot(items)
                  ELSE IF is_array
                       THEN XmlParseCollection(items, 1, <<>>, max_samples, recovery)
                       ELSE XmlParseSingleRecord(items)
  IN /\ parsed' = [parsed EXCEPT !.called = TRUE, !.raised = result.raised,
                                 !.records = result.records]
     /\ UNCHANGED <<stored, acc>>
     /\ UNCHANGED exceptFile

(***************************************************************************)
(* Counts: the accumulator of one field of a JSON file, its to_dict, the   *)
(* quality metrics of its samples and the count columns of the stored      *)
(* Field.  A percentage p is kept as the fraction p / 100 in lowest terms. *)
(***************************************************************************)
ObservedValues == {JNull, JStr("a"), JStr("b"), JInt("1")}

ObservationLists == UNION { [1..n -> ObservedValues] : n \in 1..MaxObservations }

\* observe_value on the field for each record of the file in turn
RECURSIVE ObserveAll(_, _, _)
ObserveAll(meta, observations, i) ==
  IF i > Len(observations) THEN meta
  ELSE ObserveAll(BaseObserveValue(meta, observations[i]), observations, i + 1)

\* FieldMetadata.to_dict: 'null_percentage'
NullPercentage(meta) ==
  IF meta.total_count > 0 THEN Ratio(meta.null_count, meta.total_count) ELSE Ratio(0, 1)

\* QualityAnalyzer.analyze_field: the counts of the Series of sample values
AnalyzeField(values) ==
  IF values = <<>> THEN [empty |-> TRUE, total_count |-> 0, distinct_count |-> 0,
                         cardinality_ratio |-> None]
  ELSE LET nunique == Cardinality({values[i] : i \in 1..Len(values)})
       IN [empty |-> FALSE, total_count |-> Len(values), distinct_count |-> nunique,
           cardinality_ratio |-> Some(Ratio(nunique, Len(values)))]

\* DictionaryService._process_field: the count columns of the stored Field
ProcessFieldCounts(field_meta) ==
  LET quality_metrics == AnalyzeField(field_meta.values)
  IN [null_count |-> field_meta.null_count,
      null_percentage |-> NullPercentage(field_meta),
      total_count |-> IF quality_metrics.empty THEN field_meta.total_count
                      ELSE quality_metrics.total_count,
      distinct_count |-> quality_metrics.distinct_count,
      cardinality_ratio |-> quality_metrics.cardinality_ratio]

NoStored ==
  [called |-> FALSE, observations |-> <<>>,
   field |-> [null_count |-> 0, null_percentage |-> <<0, 1>>, total_count |-> 0,
              distinct_count |-> 0, cardinality_ratio |-> None]]

\* create_dictionary on a JSON file whose records give the field these values
CreateJsonField(observations) ==
  LET meta == ObserveAll(NewFieldMetadata("f", "f", "", 0), observations, 1)
  IN /\ stored' = [stored EXCEPT !.called = TRUE, !.field = ProcessFieldCounts(meta)]
     /\ UNCHANGED <<parsed, acc>>
     /\ UNCHANGED exceptFile

(***************************************************************************)
(* A field accumulator (FieldMetadata of the JSON parser, or               *)
(* MongoDBFieldMetadata) under a sequence of observe_value calls.  New     *)
(* values arrive in the order of FreshTexts.                               *)
(***************************************************************************)
FreshTexts == <<"v1", "v2", "v3", "v4", "v5", "v6", "v7", "v8", "v9", "v10", "v11", "v12",
                "v13", "v14">>

NoAcc == [kind |-> "", meta |-> NewFieldMetadata("", "", "", 0), observed |-> 0, fresh |-> 0]

\* what the next record may hold for the field: a string not seen before, the first
\* string again, null, a number with a fraction, an object, a list, or a type wrapper
NextValues(a) ==
  {JStr(FreshTexts[a.fresh + 1]), JStr(FreshTexts[1]), JNull, JDecimal("1.5"), JDict(<<>>),
   JList(<<JNull>>), OidWrapper, BinaryWrapper}

\* field_meta.observe_value(value) on the accumulator
Observe(value) ==
  /\ acc.kind # ""
  /\ acc.observed < MaxObserveCalls
  /\ acc.fresh < Len(FreshTexts) - 1
  /\ value \in NextValues(acc)
  /\ acc' = [acc EXCEPT
       !.meta = IF acc.kind = "mongo" THEN ObserveValue(@, value)
                ELSE BaseObserveValue(@, value),
       !.observed = @ + 1,
       !.fresh = IF value = JStr(FreshTexts[acc.fresh + 1]) THEN @ + 1 ELSE @]
  /\ UNCHANGED <<parsed, stored>>
  /\ UNCHANGED exceptFile

InitFile == parsed = NoParse /\ stored = NoStored /\ acc = NoAcc

InitClass == inferred = NoInference /\ detected = NoDetection /\ pii = NoPii /\ mongo = NoMongo

vars == <<aiVars, hashVars, diffVars, classVars, sigVars, fileVars>>

\* each component before anything has been asked of it
IdleAI == InitAI(0, {FALSE}, {FALSE}, FALSE, {FALSE})

IdleSchema == InitSchema({FirstSeed})

IdleDiff == InitDiff({PathOrder})

IdleSig == InitSig({"SIG_DFL"})

IdleExceptAI == IdleSchema /\ IdleDiff /\ InitClass /\ IdleSig /\ InitFile

IdleExceptHash == IdleAI /\ IdleDiff /\ InitClass /\ IdleSig /\ InitFile

IdleExceptDiff == IdleAI /\ IdleSchema /\ InitClass /\ IdleSig /\ InitFile

IdleExceptClass == IdleAI /\ IdleSchema /\ IdleDiff /\ IdleSig /\ InitFile

IdleExceptSig == IdleAI /\ IdleSchema /\ IdleDiff /\ InitClass /\ InitFile

IdleExceptFile == IdleAI /\ IdleSchema /\ IdleDiff /\ InitClass /\ IdleSig

(***************************************************************************)
(* Spec: single generate_description calls on a configured client with the *)
(* cache enabled, the model changing and the cache being cleared.          *)
(***************************************************************************)
Init == InitAI(MaxCalls, BOOLEAN, BOOLEAN, FALSE, {FALSE}) /\ IdleExceptAI

Next ==
  \/ \E t \in Tasks, f \in Fields : CallStart(t, f)
  \/ \E t \in Tasks : Acquire(t)
  \/ \E t \in Tasks, f \in Fields : \E content \in Contents(BuildPrompt(f)) : RespondOk(t, content)
  \/ \E t \in Tasks, err \in Errors : RespondError(t, err)
  \/ \E t \in Tasks : Wake(t)
  \/ \E t \in Tasks : Return(t)
  \/ Tick
  \/ \E m \in Models : SetModel(m)
  \/ ClearCache

Spec == Init /\ [][Next]_vars

(***************************************************************************)
(* SpecPair: two calls, with the earlier one remembered in `last`.         *)
(***************************************************************************)
InitPair == InitAI(PairCalls, BOOLEAN, BOOLEAN, TRUE, {FALSE}) /\ IdleExceptAI

SpecPair == InitPair /\ [][Next]_vars

(***************************************************************************)
(* SpecBreaker: a longer run of calls for one field, any configuration.    *)
(***************************************************************************)
BreakerFields == { f \in Fields : f.field_path = "age" }

InitBreaker == InitAI(BreakerCalls, {TRUE}, BOOLEAN, FALSE, {FALSE}) /\ IdleExceptAI

NextBreaker ==
  \/ \E t \in Tasks, f \in BreakerFields : CallStart(t, f)
  \/ \E t \in Tasks : Acquire(t)
  \/ \E t \in Tasks, f \in Fields : \E content \in Contents(BuildPrompt(f)) : RespondOk(t, content)
  \/ \E t \in Tasks, err \in Errors : RespondError(t, err)
  \/ \E t \in Tasks : Wake(t)
  \/ \E t \in Tasks : Return(t)
  \/ Tick

SpecBreaker == InitBreaker /\ [][NextBreaker]_vars

(***************************************************************************)
(* SpecCooldown: the calls of SpecBreaker on a client without cache, with  *)
(* time passing in steps shorter than the cooldown.                        *)
(***************************************************************************)
InitCooldown == InitAI(BreakerCalls, {TRUE}, {FALSE}, FALSE, {FALSE}) /\ IdleExceptAI

NextCooldown ==
  \/ \E t \in Tasks, f \in BreakerFields : CallStart(t, f)
  \/ \E t \in Tasks : Acquire(t)
  \/ \E t \in Tasks, f \in Fields : \E content \in Contents(BuildPrompt(f)) : RespondOk(t, content)
  \/ \E t \in Tasks, err \in Errors : RespondError(t, err)
  \/ \E t \in Tasks : Wake(t)
  \/ \E t \in Tasks : Return(t)
  \/ Elapse

SpecCooldown == InitCooldown /\ [][NextCooldown]_vars

(***************************************************************************)
(* SpecMetrics: single calls on a configured client with the cache and the *)
(* metrics enabled; the owner may reset the metrics at any time.           *)
(***************************************************************************)
InitMetrics == InitAI(MetricCalls, {TRUE}, {TRUE}, FALSE, {TRUE}) /\ IdleExceptAI

NextMetrics ==
  \/ \E t \in Tasks, f \in Fields : CallStart(t, f)
  \/ \E t \in Tasks : Acquire(t)
  \/ \E t \in Tasks, f \in Fields : \E content \in Contents(BuildPrompt(f)) : RespondOk(t, content)
  \/ \E t \in Tasks, err \in Errors : RespondError(t, err)
  \/ \E t \in Tasks : Wake(t)
  \/ \E t \in Tasks : Return(t)
  \/ Tick
  \/ ResetMetrics

SpecMetrics == InitMetrics /\ [][NextMetrics]_vars

(***************************************************************************)
(* SpecBatch: generate_batch calls next to single calls.                   *)
(***************************************************************************)
InitBatch == InitAI(BatchCalls, BOOLEAN, BOOLEAN, FALSE, {FALSE}) /\ IdleExceptAI

NextBatch ==
  \/ \E t \in Tasks, f \in Fields : CallStart(t, f)
  \/ \E fs \in BatchInputs : BatchStart(fs)
  \/ \E t \in Tasks : BatchTaskStart(t)
  \/ \E t \in Tasks : Acquire(t)
  \/ \E t \in Tasks, f \in Fields : \E content \in Contents(BuildPrompt(f)) : RespondOk(t, content)
  \/ \E t \in Tasks, err \in Errors : RespondError(t, err)
  \/ \E t \in Tasks : Wake(t)
  \/ \E t \in Tasks : Return(t)
  \/ BatchCollect
  \/ BatchReturn

SpecBatch == InitBatch /\ [][NextBatch]_vars

(***************************************************************************)
(* SpecBatchFair: the calls of SpecBatch on a configured client without    *)
(* cache, on an event loop that keeps running.  The loop                   *)
(* runs every coroutine that is ready (a created task, a caller whose call *)
(* has returned, gather once all its tasks are done), the semaphore wakes  *)
(* a waiter when a permit is free, every asyncio.sleep ends, and every     *)
(* backend request ends with an answer or an error (asyncio.wait_for       *)
(* bounds it).                                                             *)
(***************************************************************************)
BackendAnswers(t) ==
  \/ \E f \in Fields : \E content \in Contents(BuildPrompt(f)) : RespondOk(t, content)
  \/ \E err \in Errors : RespondError(t, err)

LoopFairness ==
  /\ \A t \in Tasks : WF_vars(BatchTaskStart(t))
  /\ \A t \in Tasks : WF_vars(Acquire(t))
  /\ \A t \in Tasks : WF_vars(BackendAnswers(t))
  /\ \A t \in Tasks : WF_vars(Wake(t))
  /\ \A t \in Tasks : WF_vars(Return(t))
  /\ WF_vars(BatchCollect)
  /\ WF_vars(BatchReturn)

InitBatchFair == InitAI(FairCalls, {TRUE}, {FALSE}, FALSE, {FALSE}) /\ IdleExceptAI

SpecBatchFair == InitBatchFair /\ [][NextBatch]_vars /\ LoopFairness

(***************************************************************************)
(* SpecHash: two versions of a dictionary are created from uploaded files, *)
(* possibly by different runs of the service process.                      *)
(***************************************************************************)
InitHash == InitSchema(Seeds) /\ IdleExceptHash

NextHash ==
  \/ \E v \in Versions, file \in Files : CreateVersion(v, file)
  \/ \E seed \in Seeds : RestartProcess(seed)

SpecHash == InitHash /\ [][NextHash]_vars

(***************************************************************************)
(* SpecDiff: the rows of two versions are stored and the versions are      *)
(* compared, in either direction, possibly by different service runs.      *)
(***************************************************************************)
InitDiffSpec == InitDiff(PathSeeds) /\ IdleExceptDiff

NextDiff ==
  \/ \E v \in Versions, rows \in FieldLists : StoreFields(v, rows)
  \/ \E pr \in Pairs : CompareVersions(pr[1], pr[2])
  \/ \E seed \in PathSeeds : RestartService(seed)

SpecDiff == InitDiffSpec /\ [][NextDiff]_vars

(***************************************************************************)
(* SpecInfer: infer_type is called with lists of type tags.                *)
(***************************************************************************)
InitInfer == InitClass /\ IdleExceptClass

NextInfer == \E types_seen \in TagLists : InferTypeCall(types_seen)

SpecInfer == InitInfer /\ [][NextInfer]_vars

(***************************************************************************)
(* SpecSemantic: one detect call for a string or an integer field; the     *)
(* arguments of the call are drawn at the start.                           *)
(***************************************************************************)
InitSemantic ==
  /\ inferred = NoInference /\ pii = NoPii /\ mongo = NoMongo
  /\ detected \in {[NoDetection EXCEPT !.field_name = field_name, !.sample_values = sample_values,
                                       !.data_type = data_type] :
                     field_name \in FieldNames, sample_values \in SampleLists,
                     data_type \in {"string", "integer"}}
  /\ IdleExceptClass

NextSemantic ==
  ~detected.called /\ Detect(detected.field_name, detected.sample_values, detected.data_type)

SpecSemantic == InitSemantic /\ [][NextSemantic]_vars

(***************************************************************************)
(* SpecPii: one detect_pii call with or without a semantic type; the       *)
(* arguments of the call are drawn at the start.                           *)
(***************************************************************************)
InitPii ==
  /\ inferred = NoInference /\ detected = NoDetection /\ mongo = NoMongo
  /\ pii \in {[NoPii EXCEPT !.field_name = field_name, !.semantic_type = semantic_type,
                            !.sample_values = sample_values] :
                field_name \in FieldNames, semantic_type \in SemanticTypes,
                sample_values \in SampleLists}
  /\ IdleExceptClass

NextPii == ~pii.called /\ DetectPii(pii.field_name, pii.semantic_type, pii.sample_values)

SpecPii == InitPii /\ [][NextPii]_vars

(***************************************************************************)
(* SpecMongo: one dictionary is created from a MongoDB Extended JSON file;  *)
(* the file is drawn at the start.                                         *)
(***************************************************************************)
InitMongo ==
  /\ inferred = NoInference /\ detected = NoDetection /\ pii = NoPii
  /\ mongo \in {[NoMongo EXCEPT !.file = file] : file \in MongoFiles}
  /\ IdleExceptClass

NextMongo == ~mongo.created /\ \E order \in TagOrders : CreateMongoDictionary(mongo.file, order)

SpecMongo == InitMongo /\ [][NextMongo]_vars

(***************************************************************************)
(* SpecTimeout: a process that calls functions decorated with with_timeout, *)
(* enters timeout_context blocks and parses XML files, while time passes.  *)
(***************************************************************************)
InitTimeout == InitSig({"SIG_DFL", "app_handler"}) /\ IdleExceptSig

NextTimeout ==
  \/ \E kind \in {"decorator", "context"}, seconds \in {0, DetectTimeout} :
       GuardCall(kind, seconds)
  \/ Install
  \/ Arm
  \/ EnterBody
  \/ BodyReturns
  \/ \E e \in BodyExceptions : BodyRaises(e)
  \/ CancelAfterReturn
  \/ CancelBeforeReraise
  \/ CancelInFinally
  \/ RestoreHandler
  \/ Pass
  \/ GuardReturn
  \/ \E oversize \in BOOLEAN : XmlParseFileStart(oversize)
  \/ XmlExtractDtd
  \/ \E is_array \in BOOLEAN : XmlDetected(is_array)
  \/ XmlParsed
  \/ XmlParseFileReturn

SpecTimeout == InitTimeout /\ [][NextTimeout]_vars

(***************************************************************************)
(* SpecParse: one parse_file call of a JSON or XML parser; the file, the   *)
(* max_samples of the parser and the recovery of the XML library are drawn *)
(* at the start.                                                           *)
(***************************************************************************)
InitParse ==
  /\ parsed \in {[NoParse EXCEPT !.format = format, !.is_array = is_array, !.items = items,
                                 !.max_samples = max_samples, !.recovery = recovery] :
                  format \in {"json", "xml"}, is_array \in BOOLEAN, items \in ItemLists,
                  max_samples \in 1..MaxSampleArg, recovery \in {"skip", "stop"}}
  \* _detect_structure takes an XML file for a collection when an element repeats
  /\ parsed.format = "xml" /\ parsed.is_array => Len(parsed.items) >= 2
  /\ stored = NoStored /\ acc = NoAcc
  /\ IdleExceptFile

NextParse ==
  /\ ~parsed.called
  /\ ParseFileCall(parsed.format, parsed.is_array, parsed.items, parsed.max_samples,
                   parsed.recovery)

SpecParse == InitParse /\ [][NextParse]_vars

(***************************************************************************)
(* SpecCounts: one field is stored by create_dictionary from a JSON file;  *)
(* the values the records give it are drawn at the start.                  *)
(***************************************************************************)
InitCounts ==
  /\ stored \in {[NoStored EXCEPT !.observations = observations] :
                  observations \in ObservationLists}
  /\ parsed = NoParse /\ acc = NoAcc
  /\ IdleExceptFile

NextCounts == ~stored.called /\ CreateJsonField(stored.observations)

SpecCounts == InitCounts /\ [][NextCounts]_vars

(***************************************************************************)
(* SpecObserve: observe_value calls on one accumulator of either parser.   *)
(***************************************************************************)
InitObserve ==
  /\ acc \in {[NoAcc EXCEPT !.kind = kind, !.meta = NewFieldMetadata("f", "f", "", 0)] :
               kind \in {"json", "mongo"}}
  /\ parsed = NoParse /\ stored = NoStored
  /\ IdleExceptFile

NextObserve == \E value \in NextValues(acc) : Observe(value)

SpecObserve == InitObserve /\ [][NextObserve]_vars


(***************************************************************************)
(* Properties of the AI description client.                                *)
(***************************************************************************)
Running(t) == pc[t] \in {"waiting", "inflight", "sleeping"}

\* the call of t ended without a backend invocation, from the cache or with the fallback
ShortCircuited(t) ==
  /\ task[t].inv = 0
  /\ ~Running(t)
  /\ pc[t] = "done" =>
       \/ task[t].how = "cache"
       \/ task[t].result = Fallback(task[t].field)

\* C1 as stated: once three calls in a row have ended in a backend failure with no
\* successful call in between, every call that begins less than 60 seconds after the
\* third of them makes no backend invocation and returns the cached pair or the fallback.
C1_Original == \A t \in Tasks : task[t].coolLit => ShortCircuited(t)

\* C1 amended: the same, the failures in a row being counted from the last successful
\* call or from the last time the circuit closed after a cooldown, whichever is later.
C1_Cooldown == \A t \in Tasks : task[t].cool => ShortCircuited(t)

C1_Witness ==
  \E t \in Tasks : pc[t] = "done" /\ task[t].cool /\ task[t].how = "circuit_open"

\* C2 as stated (for a client whose cache is enabled): a call made within the TTL of
\* an earlier call with the same key, the model unchanged, returns the pair the earlier
\* call returned, and the backend is invoked at most once for the two calls.
C2_Original ==
  \A t \in Tasks :
    (pc[t] = "done" /\ task[t].first.valid /\ cache_enabled) =>
      /\ task[t].result = task[t].first.result
      /\ task[t].inv + task[t].first.inv <= 1

\* the step in which the call of t begins
Begins(t) == pc[t] \in {"idle", "created"} /\ pc'[t] \notin {"idle", "created"}

\* the step in which the call of t returns the pair parsed from a backend answer
Succeeds(t) == pc[t] = "inflight" /\ pc'[t] = "done" /\ task'[t].how = "backend"

\* C2 amended: a call that gets its pair from the backend stores exactly that pair under
\* its key for OPENAI_CACHE_TTL seconds with the current model; and a call that begins
\* while the cache (enabled) holds an entry for its key that is not expired and carries
\* the current model returns exactly the stored pair without invoking the backend.
C2_CachedPair ==
  [][\A t \in Tasks :
       /\ (Succeeds(t) /\ cache_enabled) =>
            LET k == KeyOf(task[t].field)
            IN /\ CacheIndex(cache', k) > 0
               /\ cache'[CacheIndex(cache', k)] =
                    [key |-> k, value |-> task'[t].result,
                     expiry_time |-> now + OPENAI_CACHE_TTL, model_version |-> model]
       /\ Begins(t) =>
            LET i == CacheIndex(cache, KeyOf(task'[t].field))
            IN (/\ cache_enabled
                /\ i > 0
                /\ now <= cache[i].expiry_time
                /\ cache[i].model_version = model) =>
                 /\ pc'[t] = "done"
                 /\ task'[t].result = cache[i].value
                 /\ task'[t].inv = 0]_vars

C2_Witness ==
  \E t \in Tasks :
    /\ pc[t] = "done"
    /\ task[t].how = "cache"
    /\ task[t].first.valid
    /\ task[t].first.inv = 1
    /\ task[t].result = task[t].first.result
    /\ \E i \in 1..Len(cache) :
         cache[i].key = KeyOf(task[t].field) /\ cache[i].expiry_time = now

\* C3: a call that finds an entry for its key that is expired or carries another model
\* removes the entry and does not return it; with a client configured and the circuit
\* closed the call goes on to the backend, and it returns only after invoking it.
C3_StaleEntry ==
  /\ [](\A t \in Tasks :
          (task[t].stale /\ pc[t] = "done") =>
             /\ task[t].how # "cache"
             /\ (task[t].how \in {"backend", "failed"} => task[t].inv >= 1))
  /\ [][\A t \in Tasks :
          Begins(t) =>
            LET k == KeyOf(task'[t].field)
                i == CacheIndex(cache, k)
            IN (/\ cache_enabled
                /\ i > 0
                /\ (now > cache[i].expiry_time \/ cache[i].model_version # model)) =>
                 /\ CacheIndex(cache', k) = 0
                 /\ task'[t].stale
                 /\ (client /\ ~(circuit_open /\ now < circuit_open_until)) =>
                      /\ pc'[t] \in {"inflight", "waiting"}
                      /\ pc'[t] = "inflight" <=> task'[t].inv = 1]_vars

C3_Witness ==
  \E t \in Tasks :
    /\ pc[t] = "done"
    /\ task[t].stale
    /\ task[t].how = "backend"
    /\ modelChanges > 0

C5_BoundedAttempts ==
  \A t \in Tasks :
    /\ task[t].inv <= OPENAI_MAX_RETRY_ATTEMPTS
    /\ pc[t] = "inflight" => task[t].inv = task[t].attempt + 1
    /\ pc[t] = "sleeping" =>
         /\ task[t].lastErr = "retried"
         /\ task[t].attempt < OPENAI_MAX_RETRY_ATTEMPTS
    /\ task[t].lastErr = "client_4xx" => pc[t] = "done" /\ task[t].inv = task[t].attempt

C5_Witness ==
  \E t \in Tasks :
    /\ pc[t] = "done"
    /\ task[t].lastErr = "retried"
    /\ task[t].how = "failed"
    /\ task[t].inv = OPENAI_MAX_RETRY_ATTEMPTS
    /\ OPENAI_MAX_RETRY_ATTEMPTS > 1

\* C6: never more than OPENAI_MAX_CONCURRENT_REQUESTS backend requests are in flight.
C6_InFlightBound ==
  Cardinality({t \in Tasks : pc[t] = "inflight"}) <= OPENAI_MAX_CONCURRENT_REQUESTS

C6_Witness ==
  \E t, u \in Tasks :
    /\ pc[t] = "inflight"
    /\ pc[u] = "waiting"
    /\ task[u].attempt > 0
    /\ InBatch(t)
    /\ InBatch(u)

\* the pairs a backend answer to the prompt for field f can parse to
BackendPairs(f) == { ParseResponse(c) : c \in Contents(BuildPrompt(f)) }

\* C7: generate_batch returns one pair per input field, in input order: the fallback of
\* that field where its generation failed or was short-circuited, and otherwise a pair
\* generated (or cached) for that field.
C7_BatchResults ==
  batch.phase = "collected" =>
    /\ Len(batch.results) = Len(batch.fields)
    /\ \A i \in 1..Len(batch.fields) :
         /\ batch.hows[i] \in {"failed", "circuit_open", "no_client"} =>
              batch.results[i] = Fallback(batch.fields[i])
         /\ batch.hows[i] \in {"backend", "cache"} =>
              batch.results[i] \in BackendPairs(batch.fields[i])
         /\ batch.hows[i] # "none"

C7_Witness ==
  /\ batch.phase = "collected"
  /\ Len(batch.fields) = 2
  /\ batch.fields[1] # batch.fields[2]
  /\ batch.hows[1] = "failed"
  /\ batch.hows[2] = "backend"

CacheKeys(c) == { c[i].key : i \in 1..Len(c) }

\* C8 as stated: the cache never holds more than OPENAI_CACHE_MAX_SIZE entries, and an
\* insertion removes another key's entry only if the inserted key is new and the cache
\* is full, and then it is the entry in the oldest position.
C8_Original ==
  [][/\ Len(cache') <= OPENAI_CACHE_MAX_SIZE
     /\ \A t \in Tasks :
          Succeeds(t) =>
            \A i \in 1..Len(cache) :
              cache[i].key \notin CacheKeys(cache') =>
                /\ KeyOf(task[t].field) \notin CacheKeys(cache)
                /\ Len(cache) >= OPENAI_CACHE_MAX_SIZE
                /\ i = 1]_vars

\* the versions created so far
Created == {v \in Versions : snapshots[v].created}

\* the field paths of a version
PathsOf(v) == {snapshots[v].data_type[i].field_path : i \in 1..Len(snapshots[v].data_type)}

\* the data type the Type Inferrer gave the field at path p of version v
DataTypeOf(v, p) ==
  LET i == CHOOSE i \in 1..Len(snapshots[v].data_type) : snapshots[v].data_type[i].field_path = p
  IN snapshots[v].data_type[i].data_type

\* C9 as stated: two versions created from the same unchanged input file carry the
\* same schema_hash, also when separate processes created them and whatever the order
\* in which a field's observed types are listed.
C9_Original ==
  \A v, w \in Created :
    snapshots[v].file = snapshots[w].file => snapshots[v].schema_hash = snapshots[w].schema_hash

\* C10 as stated: two versions carry the same schema_hash only if they have the same
\* set of field paths and every path has the same inferred data type in both.
C10_Original ==
  \A v, w \in Created :
    snapshots[v].schema_hash = snapshots[w].schema_hash =>
      /\ PathsOf(v) = PathsOf(w)
      /\ \A p \in PathsOf(v) : DataTypeOf(v, p) = DataTypeOf(w, p)

\* the list fields rearranged by the permutation p of its indices
Permuted(fields, p) == [i \in 1..Len(fields) |-> fields[p[i]]]

\* C11: _calculate_schema_hash gives the same digest for a list of parsed fields (each
\* path once) and for every permutation of that list, and that digest is the one the
\* version was stored with.
C11_OrderIndependent ==
  \A v \in Created :
    /\ \A seed \in Seeds :
         LET fields == ParseFile(snapshots[v].file, seed)
         IN \A p \in Permutations(1..Len(fields)) :
              CalculateSchemaHash(Permuted(fields, p)) = CalculateSchemaHash(fields)
    /\ \E seed \in Seeds :
         snapshots[v].schema_hash = CalculateSchemaHash(ParseFile(snapshots[v].file, seed))

\* two versions of the same process made from one field set met in opposite traversal
\* orders, with the same digest
C11_Witness ==
  /\ Created = Versions
  /\ Len(snapshots[1].file) = 2
  /\ snapshots[2].file = Permuted(snapshots[1].file, <<2, 1>>)
  /\ snapshots[1].file[1].field_path = "b"
  /\ snapshots[1].schema_hash = snapshots[2].schema_hash

\* the comparisons that returned a change list
Compared == {pr \in Pairs : comparisons[pr].called /\ comparisons[pr].raised = ""}

\* the records of the change list of pr that are about path p
RecordsOf(pr, p) ==
  {i \in 1..Len(comparisons[pr].changes) : comparisons[pr].changes[i].field_path = p}

\* the paths the change list of pr reports with the given change type
Reported(pr, change_type) ==
  {comparisons[pr].changes[i].field_path :
     i \in {j \in 1..Len(comparisons[pr].changes) :
              comparisons[pr].changes[j].change_type = change_type}}

\* the rows of the first and of the second version of the pair
Rows1(pr) == field_rows[pr[1]].rows

Rows2(pr) == field_rows[pr[2]].rows

\* the attributes in which two rows of one path differ
Differing(r1, r2) ==
  {a \in {"data_type", "semantic_type", "is_nullable", "is_array", "is_pii"} : r1[a] # r2[a]}

\* C12: compare_versions reports every path that is in one version only, or in both
\* with another data type, semantic type, nullability, array-ness or PII flag, exactly
\* once, and no other path: added (not breaking) when only in the second version,
\* removed (breaking) when only in the first, modified otherwise.
C12_ChangeRecords ==
  \A pr \in Compared : \A p \in Paths :
    LET in1 == p \in MapKeys(Rows1(pr))
        in2 == p \in MapKeys(Rows2(pr))
        recs == RecordsOf(pr, p)
        rec == comparisons[pr].changes[CHOOSE i \in recs : TRUE]
    IN /\ (~in1 /\ ~in2) => recs = {}
       /\ (~in1 /\ in2) =>
            Cardinality(recs) = 1 /\ rec.change_type = "added" /\ ~rec.is_breaking
       /\ (in1 /\ ~in2) =>
            Cardinality(recs) = 1 /\ rec.change_type = "removed" /\ rec.is_breaking
       /\ (in1 /\ in2) =>
            IF Differing(MapGet(Rows1(pr), p), MapGet(Rows2(pr), p)) = {}
            THEN recs = {}
            ELSE Cardinality(recs) = 1 /\ rec.change_type = "modified"

C12_Witness ==
  \E pr \in Compared :
    /\ Reported(pr, "added") # {}
    /\ Reported(pr, "modified") # {}
    /\ \E qr \in Compared : Reported(qr, "removed") # {}

\* C13: a modified record is breaking exactly when the data type changed, or the field
\* went from nullable to non-nullable, or its array-ness changed.
C13_Breaking ==
  \A pr \in Compared : \A i \in 1..Len(comparisons[pr].changes) :
    LET rec == comparisons[pr].changes[i]
        r1 == MapGet(Rows1(pr), rec.field_path)
        r2 == MapGet(Rows2(pr), rec.field_path)
    IN rec.change_type = "modified" =>
         (rec.is_breaking <=>
            \/ "data_type" \in Differing(r1, r2)
            \/ "is_array" \in Differing(r1, r2)
            \/ (r1.is_nullable /\ ~r2.is_nullable))

\* one pair of versions compared in both directions: the field that lost its
\* nullability breaks, the same field gaining it does not
C13_Witness ==
  \E pr \in Compared : \E i \in 1..Len(comparisons[pr].changes) :
    LET rec == comparisons[pr].changes[i]
        qr == <<pr[2], pr[1]>>
    IN /\ rec.change_type = "modified"
       /\ rec.is_breaking
       /\ Differing(MapGet(Rows1(pr), rec.field_path), MapGet(Rows2(pr), rec.field_path))
            = {"is_nullable"}
       /\ qr \in Compared
       /\ \E j \in RecordsOf(qr, rec.field_path) : ~comparisons[qr].changes[j].is_breaking

\* C14: what compare_versions(v1, v2) reports as added is what compare_versions(v2, v1)
\* reports as removed, and the other way round.
C14_Symmetry ==
  \A pr \in Compared :
    LET qr == <<pr[2], pr[1]>>
    IN qr \in Compared =>
         /\ Reported(pr, "added") = Reported(qr, "removed")
         /\ Reported(pr, "removed") = Reported(qr, "added")

C14_Witness ==
  \E pr \in Compared :
    /\ <<pr[2], pr[1]>> \in Compared
    /\ Reported(pr, "added") # {}
    /\ Reported(pr, "removed") # {}
    /\ Reported(pr, "added") # Paths

\* the records of the given change type, in the order of the change list
Group(pr, change_type) ==
  SelectSeq(comparisons[pr].changes, LAMBDA c : c.change_type = change_type)

\* the paths of rows, in order, that Reported(pr, change_type) contains
InListOrder(pr, change_type, rows) ==
  SelectSeq(PathsIn(rows), LAMBDA p : p \in Reported(pr, change_type))

\* the change list is the added records, then the removed ones, then the modified ones
Grouped(pr) ==
  comparisons[pr].changes =
    Group(pr, "added") \o Group(pr, "removed") \o Group(pr, "modified")

\* C15 as stated: added, then removed, then modified records, each group in the order
\* in which the paths are met in the version's field list.
C15_Original ==
  \A pr \in Compared :
    /\ Grouped(pr)
    /\ PathsIn(Group(pr, "added")) = InListOrder(pr, "added", Rows2(pr))
    /\ PathsIn(Group(pr, "removed")) = InListOrder(pr, "removed", Rows1(pr))
    /\ \/ PathsIn(Group(pr, "modified")) = InListOrder(pr, "modified", Rows1(pr))
       \/ PathsIn(Group(pr, "modified")) = InListOrder(pr, "modified", Rows2(pr))

\* C15 amended: added records in the order of the second version's field list, then
\* removed records in the order of the first version's field list, then the modified
\* records, each once, in the order in which the running process iterates over the set
\* of common paths.
C15_GroupOrder ==
  \A pr \in Compared :
    /\ Grouped(pr)
    /\ PathsIn(Group(pr, "added")) = InListOrder(pr, "added", Rows2(pr))
    /\ PathsIn(Group(pr, "removed")) = InListOrder(pr, "removed", Rows1(pr))
    /\ \E seed \in PathSeeds :
         PathsIn(Group(pr, "modified")) =
           SelectSeq(seed, LAMBDA p : p \in Reported(pr, "modified"))

\* two modified records listed against the order of both field lists
C15_Witness ==
  \E pr \in Compared :
    /\ Len(Group(pr, "modified")) = 2
    /\ PathsIn(Rows1(pr)) = PathsIn(Rows2(pr))
    /\ PathsIn(Group(pr, "modified")) # PathsIn(Rows1(pr))

\* C16 as stated: with an 'integer' and a 'float' tag in the input the result is 'float'
\* with confidence (integers + floats) / (number of tags) * 100, and the empty input
\* gives ('unknown', 0.0).
C16_Original ==
  inferred.called =>
    LET l == inferred.types_seen
    IN /\ ("integer" \in CounterKeys(l) /\ "float" \in CounterKeys(l)) =>
            /\ inferred.data_type = "float"
            /\ inferred.confidence = Ratio(Count(l, "integer") + Count(l, "float"), Len(l))
       /\ l = <<>> => (inferred.data_type = "unknown" /\ inferred.confidence = <<0, 1>>)

\* C16 amended: the same, the confidence being (integers + floats) / (number of tags
\* that are not 'null') * 100.
C16_IntegerFloat ==
  inferred.called =>
    LET l == inferred.types_seen
    IN /\ ("integer" \in CounterKeys(l) /\ "float" \in CounterKeys(l)) =>
            /\ inferred.data_type = "float"
            /\ inferred.confidence =
                 Ratio(Count(l, "integer") + Count(l, "float"), Len(l) - Count(l, "null"))
       /\ l = <<>> => (inferred.data_type = "unknown" /\ inferred.confidence = <<0, 1>>)

\* an integer, a float and a null tag: the confidence is 100
C16_Witness ==
  /\ inferred.called
  /\ Count(inferred.types_seen, "integer") = 1
  /\ Count(inferred.types_seen, "float") = 1
  /\ Count(inferred.types_seen, "null") = 1
  /\ inferred.data_type = "float"
  /\ inferred.confidence = <<1, 1>>

\* the str values among the first SampleLimit samples of the last detect call
CheckedStrings ==
  {i \in 1..Len(detected.sample_values) : i <= SampleLimit /\ detected.sample_values[i].is_str}

\* the checked samples of the last detect call: none of them is null
CheckedSamples == {i \in 1..Len(detected.sample_values) : i <= SampleLimit}

\* the checked str values counted for label
CountedFor(label) ==
  {i \in CheckedStrings : MatchedLabel(detected.field_name, detected.sample_values[i].text) = label}

Labels == {MatchKeys[i] : i \in 1..Len(MatchKeys)}

\* the pattern step returns the label with the most matches if that label has at least
\* SemanticThresholdPercent of the samples in `among`, and nothing otherwise
PatternRule(among) ==
  (detected.called /\ detected.pattern.ran) =>
    /\ \A l \in Labels :
         detected.pattern.label = Some(l) =>
           /\ Cardinality(CountedFor(l)) * 100 >= SemanticThresholdPercent * Cardinality(among)
           /\ \A m \in Labels : Cardinality(CountedFor(m)) <= Cardinality(CountedFor(l))
    /\ detected.pattern.label \in {None} \cup {Some(l) : l \in Labels}
    /\ detected.pattern.label = None <=>
         \/ among = {}
         \/ \A l \in Labels :
              Cardinality(CountedFor(l)) * 100 < SemanticThresholdPercent * Cardinality(among)

ValueBased ==
  /\ pii.called
  /\ pii.semantic_type \notin {Some("email"), Some("phone")}
  /\ \A i \in 1..Len(PiiIndicators) : PiiIndicators[i].indicator \notin KeywordsIn(pii.field_name)

\* the samples of the last detect_pii call with the SSN shape
SsnShaped ==
  {i \in 1..Len(pii.sample_values) :
     pii.sample_values[i].is_str /\ pii.sample_values[i].text \in PII_SSN_PATTERN}

\* the samples of the last detect_pii call that are Luhn-valid card numbers
LuhnValid ==
  {i \in 1..Len(pii.sample_values) :
     pii.sample_values[i].is_str /\ IsCreditCard(pii.sample_values[i].text)}

\* C18 as stated: in the value-based step detect_pii returns (True, 'ssn') whenever at
\* least 50% of the samples have the SSN shape, otherwise (True, 'credit_card') whenever
\* at least 50% are Luhn-valid card numbers, and (False, None) in every other case.
C18_Original ==
  ValueBased =>
    LET n == Len(pii.sample_values)
        ssn == n > 0 /\ Cardinality(SsnShaped) * 2 >= n
        cc == n > 0 /\ Cardinality(LuhnValid) * 2 >= n
    IN pii.result = IF ssn THEN <<TRUE, Some("ssn")>>
                    ELSE IF cc THEN <<TRUE, Some("credit_card")>>
                    ELSE <<FALSE, None>>

\* C18 amended: the same with "more than 50%": a field of which exactly half of the
\* samples match is not flagged.
C18_ValueMajority ==
  ValueBased =>
    LET n == Len(pii.sample_values)
        ssn == Cardinality(SsnShaped) * 2 > n
        cc == Cardinality(LuhnValid) * 2 > n
    IN pii.result = IF ssn THEN <<TRUE, Some("ssn")>>
                    ELSE IF cc THEN <<TRUE, Some("credit_card")>>
                    ELSE <<FALSE, None>>

\* a value-based call where one card number of two samples is Luhn-valid and the other
\* is not: the field is not flagged
C18_Witness ==
  /\ ValueBased
  /\ pii.sample_values = <<Str("4111 1111 1111 1111"), Str("1234 5678 9012 3456")>>
  /\ pii.result = <<FALSE, None>>

\* the keys of obj at any depth outside type wrappers, each with its path and its value
RECURSIVE Occurrences(_, _)
Occurrences(obj, parent_path) ==
  IF obj.kind = "list"
  THEN UNION {Occurrences(obj.items[i].value, parent_path) : i \in 1..Len(obj.items)}
  ELSE IF obj.kind = "dict" /\ \A i \in 1..Len(obj.items) : obj.items[i].key \notin Markers
  THEN UNION {{<<FieldPath(parent_path, obj.items[i].key), obj.items[i].value>>}
                \cup Occurrences(obj.items[i].value, FieldPath(parent_path, obj.items[i].key)) :
              i \in 1..Len(obj.items)}
  ELSE {}

\* the fields of the file of the last create_dictionary, each with the values it holds
Observed == UNION {Occurrences(mongo.file.records[i], "") : i \in 1..Len(mongo.file.records)}

ValuesAt(path) == {o[2] : o \in {x \in Observed : x[1] = path}}

\* the dicts that carry a marker key
Wrappers == {v \in FieldValues : v.kind = "dict" /\ \E i \in 1..Len(v.items) : v.items[i].key \in Markers}

\* the wrappers whose marker holds a value of the shape that the marker stands for
Recognized == Wrappers \ Malformed

\* the type tag of a wrapper, by its marker
WrapperTag(w) ==
  CASE w.items[1].key = "$oid" -> "mongodb_objectid"
    [] w.items[1].key = "$date" -> "mongodb_date"
    [] w.items[1].key = "$numberLong" -> "mongodb_long"
    [] w.items[1].key = "$numberDecimal" -> "mongodb_decimal"
    [] w.items[1].key = "$binary" -> "mongodb_binary"

\* the value inside a wrapper, a wrapper inside it unwrapped as well
RECURSIVE InnerValue(_)
InnerValue(w) ==
  IF w.kind = "dict" /\ w.items # <<>> /\ w.items[1].key \in Markers
  THEN InnerValue(w.items[1].value)
  ELSE w

\* the sample that the parser keeps of a recognized wrapper
KeptSample(w) == IF w.items[1].key = "$binary" THEN Str("<binary>") ELSE AsSample(InnerValue(w))

\* the parsed fields at path
ParsedAt(path) == {i \in 1..Len(mongo.parsed) : mongo.parsed[i].field_path = path}

Elements(list) == {list[i] : i \in 1..Len(list)}

\* a field that holds a recognized wrapper is parsed once, with the wrapper's tag and with
\* sample(w) among its samples, and a field that holds nothing but wrappers has no field
\* beneath it
TypedLeaves(sample(_)) ==
  mongo.created =>
    /\ \A o \in Observed :
         o[2] \in Recognized =>
           /\ Cardinality(ParsedAt(o[1])) = 1
           /\ \A i \in ParsedAt(o[1]) :
                /\ WrapperTag(o[2]) \in Elements(mongo.parsed[i].types_seen)
                /\ sample(o[2]) \in Elements(mongo.parsed[i].values)
    /\ \A o \in Observed :
         ValuesAt(o[1]) \subseteq Recognized =>
           /\ \A i \in 1..Len(mongo.parsed) : mongo.parsed[i].parent_path # o[1]
           /\ \A i \in ParsedAt(o[1]) :
                /\ Elements(mongo.parsed[i].types_seen) = {WrapperTag(w) : w \in ValuesAt(o[1])}
                /\ Elements(mongo.parsed[i].values) = {sample(w) : w \in ValuesAt(o[1])}

\* C19 as stated: a field on which the MongoDB parser observes a type wrapper ($oid,
\* $date, $numberLong, $numberDecimal, $binary) is recorded once as a typed leaf with
\* the wrapper's type tag, with the bare inner value as its sample, and with no field
\* path beneath it.
C19_Original == TypedLeaves(LAMBDA w : AsSample(InnerValue(w)))

\* C19 amended: the same for wrappers whose inner value has the shape of the marker,
\* with the sample '<binary>' for a $binary wrapper; a dict that carries a marker with
\* another inner value is recorded as 'object' without a sample and without a field
\* path beneath it.
C19_TypedLeaf ==
  /\ TypedLeaves(KeptSample)
  /\ mongo.created =>
       \A o \in Observed :
         ValuesAt(o[1]) \subseteq Malformed =>
           /\ \A i \in 1..Len(mongo.parsed) : mongo.parsed[i].parent_path # o[1]
           /\ \A i \in ParsedAt(o[1]) :
                /\ mongo.parsed[i].types_seen = <<"object">>
                /\ mongo.parsed[i].values = <<>>

\* a root object with a $binary wrapper and a $date wrapper around a $numberLong: two
\* parsed fields
C19_Witness ==
  /\ mongo.created
  /\ mongo.file.records = <<JDict(<<Item("_id", BinaryWrapper), Item("createdAt", DateLongWrapper)>>)>>
  /\ Len(mongo.parsed) = 2
  /\ mongo.parsed[1].values = <<Str("<binary>")>>
  /\ mongo.parsed[2].values = <<Str("1673777400000")>>

\* the stored fields at path
StoredAt(path) == {i \in 1..Len(mongo.fields) : mongo.fields[i].field_path = path}

\* the data type that a field of wrappers with this tag is expected to get
ExpectedDataType(tag) ==
  CASE tag = "mongodb_objectid" -> "objectid"
    [] tag = "mongodb_date" -> "datetime"
    [] tag = "mongodb_decimal" -> "decimal"
    [] tag = "mongodb_long" -> "integer"
    [] tag = "mongodb_binary" -> "binary"

\* C20 as stated: create_dictionary on a MongoDB Extended JSON file stores every ObjectId
\* field with data_type 'objectid' and semantic_type 'identifier', every date-wrapper
\* field with 'datetime' and 'timestamp', every NumberDecimal field with 'decimal', every
\* NumberLong field with 'integer' and every Binary field with 'binary', each with
\* confidence_score 95.0.
C20_Original ==
  mongo.created =>
    \A o \in Observed :
      (ValuesAt(o[1]) \subseteq Recognized /\ \A w \in ValuesAt(o[1]) : WrapperTag(w) = WrapperTag(o[2]))
        => \A i \in StoredAt(o[1]) :
             /\ mongo.fields[i].data_type = ExpectedDataType(WrapperTag(o[2]))
             /\ mongo.fields[i].confidence_score = Ratio(95, 100)
             /\ WrapperTag(o[2]) = "mongodb_objectid" => mongo.fields[i].semantic_type = Some("identifier")
             /\ WrapperTag(o[2]) = "mongodb_date" => mongo.fields[i].semantic_type = Some("timestamp")

\* C27: a fallback pair is never stored in the cache: every entry holds a pair parsed from
\* a backend response to the prompt of its key, and a call answered from the cache does
\* not return the fallback
C27_NoFallbackCached ==
  /\ \A i \in 1..Len(cache) :
       \E f \in Fields :
         /\ KeyOf(f) = cache[i].key
         /\ cache[i].value \in {ParseResponse(content) : content \in Contents(BuildPrompt(f))}
         /\ cache[i].value # Fallback(f)
  /\ \A t \in Tasks :
       pc[t] = "done" /\ task[t].how = "cache" => task[t].result # Fallback(task[t].field)

\* a call has failed and returned the fallback while the cache is enabled and holds an
\* entry of an earlier success: it holds none for the key of the failed call
C27_Witness ==
  \E t \in Tasks :
    /\ pc[t] = "done"
    /\ task[t].how = "failed"
    /\ task[t].result = Fallback(task[t].field)
    /\ cache_enabled
    /\ cache # <<>>
    /\ CacheIndex(cache, KeyOf(task[t].field)) = 0

\* no generate_description call is in progress
NoCallInProgress == \A t \in Tasks : pc[t] \in {"idle", "done"}

CountersAgree ==
  /\ metrics.total_requests =
       metrics.cached_requests + metrics.successful_requests + metrics.failed_requests
  /\ metrics.cached_requests = metrics.cache_hits
  /\ metrics.cache_hits + metrics.cache_misses = metrics.total_requests

\* C28, as claimed: with metrics, cache and client in place, whenever no call is in
\* progress, total_requests = cached_requests + successful_requests + failed_requests,
\* cached_requests = cache_hits and cache_hits + cache_misses = total_requests
C28_Original == NoCallInProgress => CountersAgree

\* C28, amended: the same, unless the last reset_metrics was made while a call was in
\* progress
C28_QuiescentCounters == NoCallInProgress /\ ~metrics.straddled => CountersAgree

\* calls have ended from the cache, with a backend answer and with the fallback, the
\* last of them behind a reset, and none is in progress
C28_Witness ==
  /\ NoCallInProgress
  /\ ~metrics.straddled
  /\ metrics.cached_requests > 0
  /\ metrics.successful_requests > 0
  /\ metrics.failed_requests > 0
  /\ callsLeft = 0

\* C29: every generate_description call that has started returns, and a running
\* generate_batch collects its results
C29_EveryCallReturns ==
  /\ \A t \in Tasks :
       (pc[t] \in {"created", "waiting", "inflight", "sleeping"}) ~> (pc[t] \in {"done", "idle"})
  /\ (batch.phase = "running") ~> (batch.phase = "collected")

\* inside a running batch one call waits for the permit while the other sleeps between
\* two attempts
C29_Witness ==
  /\ batch.phase = "running"
  /\ \E t, u \in Tasks : pc[t] = "waiting" /\ pc[u] = "sleeping" /\ task[u].attempt > 0

\* C25: once the circuit has opened, nothing that happens while it is open moves the
\* time at which it closes to a later time
C25_Original ==
  [][circuit_open /\ now < circuit_open_until => circuit_open_until' <= circuit_open_until]_vars

\* the two lists hold the same tags the same number of times
SameMultiset(a, b) ==
  Len(a) = Len(b) /\ \A x \in CounterKeys(a) \cup CounterKeys(b) : Count(a, x) = Count(b, x)

\* C26: infer_type returns the same type and confidence for every order of the same
\* multiset of tags
C26_Original ==
  inferred.called =>
    \A types_seen \in TagLists :
      SameMultiset(types_seen, inferred.types_seen) =>
        /\ InferType(types_seen) = inferred.data_type
        /\ InferConfidence(types_seen) = inferred.confidence

(***************************************************************************)
(* Properties of the timeouts.                                             *)
(***************************************************************************)
\* the alarm is pending only while the handler of a wrapper or block is installed
AlarmOnlyUnderTimeoutHandler == alarm_at # 0 => handler = "timeout_handler"

C30_Original ==
  guard.pc = "done" => alarm_at = 0 /\ handler = guard.before

(***************************************************************************)
(* Properties of the parsers.                                              *)
(***************************************************************************)
HasSyntaxError(items) == \E i \in 1..Len(items) : items[i] = "bad"

\* C22: when the JSON or XML file holds a syntax error anywhere, parse_file raises an
\* error and no record of the file has gone into a returned field list
C22_Original ==
  parsed.called /\ HasSyntaxError(parsed.items)
    => parsed.raised # "none" /\ parsed.records = <<>>

\* p <= q for fractions
FractionLeq(p, q) == p[1] * q[2] <= q[1] * p[2]

\* C23: a stored field has null_count <= total_count, null_percentage = null_count /
\* total_count * 100 within [0, 100], distinct_count <= total_count and cardinality_ratio =
\* distinct_count / total_count within [0, 1]
C23_Original ==
  stored.called =>
    LET f == stored.field
    IN /\ f.null_count <= f.total_count
       /\ f.null_percentage = Ratio(f.null_count, f.total_count)
       /\ FractionLeq(<<0, 1>>, f.null_percentage) /\ FractionLeq(f.null_percentage, <<1, 1>>)
       /\ f.distinct_count <= f.total_count
       /\ f.cardinality_ratio = Some(Ratio(f.distinct_count, f.total_count))
       /\ FractionLeq(<<0, 1>>, f.cardinality_ratio[1])
       /\ FractionLeq(f.cardinality_ratio[1], <<1, 1>>)

\* C24: after any sequence of observe_value calls on a field accumulator, sample_values
\* holds at most 10 values and no value twice, total_count is the number of calls, 0 <=
\* null_count <= total_count, and the null_percentage of to_dict lies in [0, 100]
C24_Accumulator ==
  LET meta == acc.meta
  IN /\ Len(meta.values) <= 10
     /\ \A i, j \in 1..Len(meta.values) : meta.values[i] = meta.values[j] => i = j
     /\ meta.total_count = acc.observed
     /\ 0 <= meta.null_count /\ meta.null_count <= meta.total_count
     /\ FractionLeq(<<0, 1>>, NullPercentage(meta))
     /\ FractionLeq(NullPercentage(meta), <<1, 1>>)

\* more than ten different values and a null have been observed, ten samples are kept
C24_Witness ==
  /\ acc.fresh > 10
  /\ acc.meta.null_count > 0
  /\ acc.meta.total_count = acc.observed
  /\ Len(acc.meta.values) = 10

====
